---- MODULE Spec2Model ----
(***************************************************************************)
(* Model of the content-extraction pipeline of Social Saver Bot            *)
(* (src/content_extractor.py, src/config.py).                              *)
(*                                                                         *)
(* Text is a sequence of one-character strings, so that substring tests,   *)
(* URL parsing and the regular expressions of the source are computed and  *)
(* not assumed.  Python's None and the JSON values that are not strings    *)
(* are sentinels that are not text.                                        *)
(***************************************************************************)
EXTENDS Integers, Sequences, FiniteSets, TLC

VARIABLES
    pc,           \* where the call in progress stands
    entry,        \* the function the caller called
    url,          \* its url argument
    max_retries,  \* its max_retries argument
    attempt,      \* the loop variable of extract_with_retry, -1 before the loop
    platform,     \* the tag detect_platform returned, "none" before it ran
    result,       \* the local `result` of extract_with_retry
    returned,     \* what the call returned to its caller
    exc,          \* the exception that escaped the call, "none" if none did
    calls,        \* invocations of extract
    netCalls,     \* HTTP requests issued
    sleeps,       \* time.sleep(1) calls
    invoked,      \* the strategies invoked, in order
    history,      \* the dicts the invocations of extract returned, in order
    events,       \* the invocations of extract and the sleeps, in order
    requests,     \* the HTTP requests issued, in order
    last,         \* what the remote side answered in the last invocation
    log,          \* the previous call of the caller, once it is over
    norm,         \* the last call of a text normaliser
    fetches,      \* how the page request of each invocation ended, in order
    saved_content,\* the rows of the table saved_content, in insertion order
    collections,  \* the names in the table collections, in insertion order
    web,          \* the HTTP requests the application is handling
    stats,        \* the last call of get_streak_stats
    page,         \* the last call of extract with the answers it was given
    op            \* the last call of a collection function

vars == <<pc, entry, url, max_retries, attempt, platform, result, returned,
          exc, calls, netCalls, sleeps, invoked, history, events, requests,
          last, log, norm, fetches, saved_content, collections, web, stats,
          page, op>>

\* the state outside the call in progress
appVars == <<saved_content, collections, web, stats, page, op>>

\* the state of the call in progress
callVars == <<pc, entry, url, max_retries, attempt, platform, result,
              returned, exc, calls, netCalls, sleeps, invoked, history,
              events, requests, last, log, norm, fetches>>

(***************************************************************************)
(* Bounds of the model.                                                    *)
(***************************************************************************)
MaxRetries == 3
MaxCaptionLen == 3

(***************************************************************************)
(* Text helpers.                                                           *)
(***************************************************************************)
None == <<"<None>">>

UpperChars == <<"A","B","C","D","E","F","G","H","I","J","K","L","M","N","O","P","Q","R","S","T","U","V","W","X","Y","Z">>
LowerChars == <<"a","b","c","d","e","f","g","h","i","j","k","l","m","n","o","p","q","r","s","t","u","v","w","x","y","z">>
DigitChars == <<"0","1","2","3","4","5","6","7","8","9">>

SeqRange(s) == {s[i] : i \in 1..Len(s)}

Min(S) == CHOOSE x \in S : \A y \in S : x <= y

\* str.lower() of one character
LowerChar(c) ==
    IF \E i \in 1..26 : UpperChars[i] = c
    THEN LowerChars[CHOOSE i \in 1..26 : UpperChars[i] = c]
    ELSE c

\* str.lower()
Lower(s) == [i \in 1..Len(s) |-> LowerChar(s[i])]

\* s[from:] with a 1-based from
Suffix(s, from) == SubSeq(s, from, Len(s))

\* the text p occurs in s at the 1-based position i
OccursAt(s, p, i) ==
    /\ i >= 1
    /\ i + Len(p) - 1 <= Len(s)
    /\ SubSeq(s, i, i + Len(p) - 1) = p

\* Python's `p in s`
Contains(s, p) == \E i \in 1..(Len(s) + 1) : OccursAt(s, p, i)

\* 1-based str.find(): 0 when p does not occur
Find(s, p) ==
    IF Contains(s, p)
    THEN Min({i \in 1..(Len(s) + 1) : OccursAt(s, p, i)})
    ELSE 0

(***************************************************************************)
(* src/config.py                                                           *)
(***************************************************************************)
PLATFORM_PATTERNS == <<
    [platform |-> "instagram", patterns |-> << <<"i","n","s","t","a","g","r","a","m",".","c","o","m">>, <<"i","n","s","t","a","g","r",".","a","m">> >>],
    [platform |-> "twitter",   patterns |-> << <<"t","w","i","t","t","e","r",".","c","o","m">>, <<"x",".","c","o","m">> >>],
    [platform |-> "facebook",  patterns |-> << <<"f","a","c","e","b","o","o","k",".","c","o","m">>, <<"f","b",".","c","o","m">> >>],
    [platform |-> "youtube",   patterns |-> << <<"y","o","u","t","u","b","e",".","c","o","m">>, <<"y","o","u","t","u",".","b","e">> >>],
    [platform |-> "tiktok",    patterns |-> << <<"t","i","k","t","o","k",".","c","o","m">> >>],
    [platform |-> "linkedin",  patterns |-> << <<"l","i","n","k","e","d","i","n",".","c","o","m">> >>],
    [platform |-> "reddit",    patterns |-> << <<"r","e","d","d","i","t",".","c","o","m">>, <<"r","e","d","d",".","i","t">> >>],
    [platform |-> "pinterest", patterns |-> << <<"p","i","n","t","e","r","e","s","t",".","c","o","m">>, <<"p","i","n",".","i","t">> >>],
    [platform |-> "blog",      patterns |-> << >>] >>

ALLOWED_PLATFORMS ==
    {"instagram", "twitter", "facebook", "youtube", "tiktok",
     "linkedin", "reddit", "pinterest", "blog"}

\* the entry of PLATFORM_PATTERNS at position i has a pattern that occurs in s
EntryMatches(i, s) ==
    \E j \in 1..Len(PLATFORM_PATTERNS[i].patterns) :
        Contains(s, PLATFORM_PATTERNS[i].patterns[j])

\* mutant of detect_platform: the URL is matched as written, not lowered
detect_platform_case_sensitive(u) ==
    LET hits == {i \in 1..Len(PLATFORM_PATTERNS) : EntryMatches(i, u)}
    IN  IF hits = {} THEN "blog" ELSE PLATFORM_PATTERNS[Min(hits)].platform

\* mutant of detect_platform: the last matching entry of the table wins
detect_platform_last_match(u) ==
    LET url_lower == Lower(u)
        hits == {i \in 1..Len(PLATFORM_PATTERNS) : EntryMatches(i, url_lower)}
        last_hit == CHOOSE i \in hits : \A j \in hits : j <= i
    IN  IF hits = {} THEN "blog" ELSE PLATFORM_PATTERNS[last_hit].platform

detect_platform(u) ==
    LET url_lower == Lower(u)
        hits == {i \in 1..Len(PLATFORM_PATTERNS) : EntryMatches(i, url_lower)}
    IN  IF hits = {} THEN "blog" ELSE PLATFORM_PATTERNS[Min(hits)].platform

\* urllib.parse: the characters a scheme may hold
scheme_chars == SeqRange(UpperChars) \cup SeqRange(LowerChars)
                    \cup SeqRange(DigitChars) \cup {"+", "-", "."}

\* urllib.parse.urlsplit, as far as scheme and netloc go: the scheme is the
\* text before the first ":" when it starts with a letter and holds scheme
\* characters only; the netloc is what follows "//" up to the next "/", "?"
\* or "#"; a netloc with an unbalanced "[" or "]" raises ValueError.  (The
\* URLs of the model neither start with a blank or control character nor
\* hold a tab or a line break, which urlsplit would drop first.)
urlparse(u) ==
    LET i == Find(u, <<":">>)
        hasScheme == /\ i > 1
                     /\ u[1] \in SeqRange(UpperChars) \cup SeqRange(LowerChars)
                     /\ \A k \in 1..(i - 1) : u[k] \in scheme_chars
        scheme == IF hasScheme THEN Lower(SubSeq(u, 1, i - 1)) ELSE <<>>
        rest == IF hasScheme THEN Suffix(u, i + 1) ELSE u
        hasNetloc == OccursAt(rest, <<"/", "/">>, 1)
        delims == {k \in 3..Len(rest) : rest[k] \in {"/", "?", "#"}}
        stop == IF delims = {} THEN Len(rest) + 1 ELSE Min(delims)
        netloc == IF hasNetloc THEN SubSeq(rest, 3, stop - 1) ELSE <<>>
        open == "[" \in SeqRange(netloc)
        close == "]" \in SeqRange(netloc)
    IN  [raises |-> (open /\ ~close) \/ (close /\ ~open),
         scheme |-> scheme,
         netloc |-> netloc]

\* mutant of is_valid_url: any() in place of all()
is_valid_url_any(u) ==
    LET r == urlparse(u)
    IN  IF r.raises THEN FALSE ELSE r.scheme # <<>> \/ r.netloc # <<>>

is_valid_url(u) ==
    LET r == urlparse(u)
    IN  IF r.raises THEN FALSE ELSE r.scheme # <<>> /\ r.netloc # <<>>

(***************************************************************************)
(* Character classes of Python's re and str on the alphabet of the model.  *)
(* A code point outside ASCII is written as one token: U+00E9 is a letter, *)
(* U+2014 the em dash, U+1F60A, U+2764 and U+4E2D fall in the ranges of    *)
(* emoji_pattern, U+1F923 is an emoji outside every range of it.           *)
(***************************************************************************)
WhitespaceChars == {" ", "\t", "\n"}

WordChars == SeqRange(UpperChars) \cup SeqRange(LowerChars)
                 \cup SeqRange(DigitChars) \cup {"_", "U+00E9", "U+4E2D"}

\* the character class of emoji_pattern
EmojiChars == {"U+1F60A", "U+2764", "U+4E2D"}

EmDash == "U+2014"

IsSpace(c) == c \in WhitespaceChars
IsWord(c) == c \in WordChars
IsDigit(c) == c \in SeqRange(DigitChars)

\* the first position >= i of s whose character is not in class, Len(s) + 1
\* when there is none: where a greedy class* that starts at i stops
SkipClass(s, i, class) ==
    LET stops == {k \in i..Len(s) : s[k] \notin class}
    IN  IF stops = {} THEN Len(s) + 1 ELSE Min(stops)

\* the same for a negated class
SkipNotClass(s, i, class) ==
    LET stops == {k \in i..Len(s) : s[k] \in class}
    IN  IF stops = {} THEN Len(s) + 1 ELSE Min(stops)

\* str.strip()
Strip(s) ==
    LET keep == {k \in 1..Len(s) : ~IsSpace(s[k])}
    IN  IF keep = {} THEN <<>>
        ELSE SubSeq(s, Min(keep), CHOOSE k \in keep : \A j \in keep : j <= k)

\* s[:n]
Prefix(s, n) == SubSeq(s, 1, IF Len(s) < n THEN Len(s) ELSE n)

\* the characters of s at the positions in keep, in order
AtPositions(s, keep) ==
    [n \in 1..Cardinality(keep) |->
        s[CHOOSE k \in keep : Cardinality({j \in keep : j <= k}) = n]]

\* re.sub(mark + r'\w+', '', s) for mark one of "#" and "@": a match starts
\* at every mark that a word character follows (a mark is no word character,
\* so no match holds another's start) and takes the whole run of word
\* characters
SubMarked(s, mark) ==
    LET starts == {i \in 1..(Len(s) - 1) : s[i] = mark /\ IsWord(s[i + 1])}
        matched == {k \in 1..Len(s) :
                       \E i \in starts : i <= k /\ k < SkipClass(s, i + 1, WordChars)}
    IN  AtPositions(s, (1..Len(s)) \ matched)

\* emoji_pattern.sub('', s)
SubEmoji(s) == SelectSeq(s, LAMBDA c : c \notin EmojiChars)

\* re.sub(r'\.{2,}', '', s): every period that has a period next to it
SubDots(s) ==
    LET matched == {k \in 1..Len(s) :
                       /\ s[k] = "."
                       /\ \/ (k > 1 /\ s[k - 1] = ".")
                          \/ (k < Len(s) /\ s[k + 1] = ".")}
    IN  AtPositions(s, (1..Len(s)) \ matched)

\* ' '.join(s.split()): the characters that are no whitespace, and one
\* space for every run of whitespace that has such characters on both sides
JoinSplit(s) ==
    LET solid == {k \in 1..Len(s) : ~IsSpace(s[k])}
        gaps == {k \in 2..Len(s) :
                    /\ IsSpace(s[k])
                    /\ ~IsSpace(s[k - 1])
                    /\ \E j \in solid : j > k}
        spaced == [k \in 1..Len(s) |-> IF k \in gaps THEN " " ELSE s[k]]
    IN  AtPositions(spaced, solid \cup gaps)

(***************************************************************************)
(* src/content_extractor.py: the text normalisation                        *)
(***************************************************************************)
InstagramPost == <<"I","n","s","t","a","g","r","a","m"," ","P","o","s","t">>

TitleMaxLen == 60

\* lines 78-97 of _clean_instagram_title: hashtags, mentions, emoji, runs of
\* periods, whitespace
strip_social_noise(caption) ==
    JoinSplit(SubDots(SubEmoji(SubMarked(SubMarked(caption, "#"), "@"))))

\* _clean_instagram_title for a caption that is text or None
\* mutant of _clean_instagram_title: neither the first sentence nor the
\* text is held to TitleMaxLen characters
_clean_instagram_title_unbounded(caption) ==
    IF caption = None \/ caption = <<>> THEN InstagramPost
    ELSE LET text == strip_social_noise(caption)
             dot == Find(text, <<".">>)
         IN  IF dot > 0 THEN Strip(SubSeq(text, 1, dot - 1)) \o <<".">>
             ELSE IF text # <<>> THEN text
             ELSE InstagramPost

_clean_instagram_title(caption) ==
    IF caption = None \/ caption = <<>> THEN InstagramPost
    ELSE LET text == strip_social_noise(caption)
             dot == Find(text, <<".">>)
             first_sentence == SubSeq(text, 1, dot - 1)
         IN  IF dot > 0 /\ Len(first_sentence) <= TitleMaxLen
             THEN Strip(first_sentence) \o <<".">>
             ELSE IF text # <<>> THEN Strip(Prefix(text, TitleMaxLen))
             ELSE InstagramPost


(***************************************************************************)
(* What the remote side answers.  A response is the outcome of one HTTP    *)
(* GET: a transport error, a status that raise_for_status rejects, or a    *)
(* document.  Of a document the model keeps what the strategies look up:   *)
(* for a tag, NoTag when soup.find returns None, NoContent when the tag    *)
(* has no content attribute, and the attribute's text otherwise.           *)
(***************************************************************************)
NoTag == <<"<no tag>">>
NoContent == <<"<no content attribute>">>
\* a key that a JSON object does not hold
Missing == <<"<missing key>">>
\* a JSON value that is neither a string nor null (a non-zero number)
JNumber == <<"<json number>">>
\* a JSON value of the wrong shape where an object or a list is expected
BadShape == <<"<wrong shape>">>
\* a <title> tag whose .string is None
NoString == <<"<no string>">>

\* no dict: a local that is not bound yet, a call that returned nothing
NoResult == [unbound |-> TRUE]

\* mutant of Fail: the failure dict echoes a platform and drops the message
FailWithContent(msg) == [success |-> FALSE, error |-> "", platform |-> "blog"]

\* the dict of a failure: success and error, nothing else
Fail(msg) == [success |-> FALSE, error |-> msg]

\* what one invocation of a strategy comes to: a returned dict or an
\* exception that escapes it, and the HTTP requests it issued, in order
Return(v, reqs) ==
    [kind |-> "return", value |-> v, exc |-> "none", requests |-> reqs]
Raise(e, reqs) ==
    [kind |-> "raise", value |-> NoResult, exc |-> e, requests |-> reqs]

\* the request of _make_request(url)
PageRequest == <<"page">>

\* the None that _make_request returns for a document
NoSoup == [none |-> TRUE]

\* _make_request: the parsed document, or None on a RequestException
\* (transport error, or raise_for_status on a non-2xx status)
_make_request(response) ==
    IF response.fetch = "ok" THEN response.doc ELSE NoSoup

\* mutant of ContentOr: an absent tag yields None, not the default
ContentOrNone(tag, default) == IF tag = NoTag THEN None ELSE tag

\* tag['content'] if tag else default, for a tag that has the attribute
ContentOr(tag, default) == IF tag = NoTag THEN default ELSE tag

\* tag.get('content', '')
GetContent(tag) == IF tag = NoContent THEN <<>> ELSE tag

\* the strategy evaluates tag['content'] of a tag without that attribute
KeyErrorIn(tags) == NoContent \in tags

(***************************************************************************)
(* _extract_instagram                                                      *)
(***************************************************************************)
\* mutant of _extract_instagram: og:title is the title when the page has one
_extract_instagram_og_title(u, response) ==
    LET soup == _make_request(response)
        caption == ContentOr(soup.og_description, <<>>)
    IN  IF soup = NoSoup
        THEN Return(Fail("Failed to fetch Instagram post"), PageRequest)
        ELSE Return([success |-> TRUE,
                     platform |-> "instagram",
                     url |-> u,
                     title |-> IF soup.og_title \in {NoTag, NoContent}
                               THEN _clean_instagram_title(caption)
                               ELSE soup.og_title,
                     caption |-> caption,
                     image_url |-> <<>>,
                     author |-> <<>>,
                     media_type |-> "post"], PageRequest)

_extract_instagram(u, response) ==
    LET soup == _make_request(response)
        title == soup.og_title
        caption == soup.og_description
        image == soup.og_image
        og_caption == ContentOr(caption, <<>>)
        script == soup.shared_data
        \* lines 139-143 ran as far as the assignment of the caption
        captionSet == script.kind = "post" /\ script.text # BadShape
        authorSet == captionSet /\ script.username # BadShape
        full_caption == IF captionSet /\ script.text # Missing
                        THEN script.text ELSE og_caption
        author == IF authorSet /\ script.username # Missing
                  THEN script.username ELSE <<>>
    IN  IF soup = NoSoup
        THEN Return(Fail("Failed to fetch Instagram post"), PageRequest)
        ELSE IF KeyErrorIn({caption, image})
        THEN Raise("KeyError", PageRequest)
        ELSE IF full_caption = JNumber
        THEN Raise("TypeError", PageRequest)
        ELSE Return([success |-> TRUE,
                     platform |-> "instagram",
                     url |-> u,
                     title |-> _clean_instagram_title(full_caption),
                     caption |-> full_caption,
                     image_url |-> ContentOr(image, <<>>),
                     author |-> author,
                     media_type |-> "post"], PageRequest)

(***************************************************************************)
(* The strategies that read the og: meta tags only                         *)
(***************************************************************************)
\* mutant of OgStrategy: without a document the result is made of the
\* defaults
OgStrategyWithoutPage(u, response, tag, errorText, defaultTitle, media_type) ==
    LET soup == _make_request(response)
        title == IF soup = NoSoup THEN NoTag ELSE soup.og_title
        description == IF soup = NoSoup THEN NoTag ELSE soup.og_description
        image == IF soup = NoSoup THEN NoTag ELSE soup.og_image
    IN  IF KeyErrorIn({title, description, image})
        THEN Raise("KeyError", PageRequest)
        ELSE Return([success |-> TRUE,
                     platform |-> tag,
                     url |-> u,
                     title |-> ContentOr(title, defaultTitle),
                     caption |-> ContentOr(description, <<>>),
                     image_url |-> ContentOr(image, <<>>),
                     author |-> <<>>,
                     media_type |-> media_type], PageRequest)

\* the body shared by _extract_facebook, _extract_tiktok, _extract_linkedin,
\* _extract_reddit and _extract_pinterest, which differ in their constants
OgStrategy(u, response, tag, errorText, defaultTitle, media_type) ==
    LET soup == _make_request(response)
        title == soup.og_title
        description == soup.og_description
        image == soup.og_image
    IN  IF soup = NoSoup
        THEN Return(Fail(errorText), PageRequest)
        ELSE IF KeyErrorIn({title, description, image})
        THEN Raise("KeyError", PageRequest)
        ELSE Return([success |-> TRUE,
                     platform |-> tag,
                     url |-> u,
                     title |-> ContentOr(title, defaultTitle),
                     caption |-> ContentOr(description, <<>>),
                     image_url |-> ContentOr(image, <<>>),
                     author |-> <<>>,
                     media_type |-> media_type], PageRequest)

_extract_facebook(u, response) ==
    OgStrategy(u, response, "facebook", "Failed to fetch Facebook post",
               <<"F","a","c","e","b","o","o","k"," ","P","o","s","t">>, "post")

_extract_tiktok(u, response) ==
    OgStrategy(u, response, "tiktok", "Failed to fetch TikTok video",
               <<"T","i","k","T","o","k"," ","V","i","d","e","o">>, "video")

_extract_linkedin(u, response) ==
    OgStrategy(u, response, "linkedin", "Failed to fetch LinkedIn post",
               <<"L","i","n","k","e","d","I","n"," ","P","o","s","t">>, "post")

_extract_reddit(u, response) ==
    OgStrategy(u, response, "reddit", "Failed to fetch Reddit post",
               <<"R","e","d","d","i","t"," ","P","o","s","t">>, "post")

_extract_pinterest(u, response) ==
    OgStrategy(u, response, "pinterest", "Failed to fetch Pinterest pin",
               <<"P","i","n","t","e","r","e","s","t"," ","P","i","n">>, "image")

(***************************************************************************)
(* _extract_youtube                                                        *)
(***************************************************************************)
\* re.search(key + '([^' + stop + ']+)', s).group(1), <<>> when there is no
\* match: the characters after the first occurrence of key that is followed
\* by a character other than stop, up to the next stop
SearchAfter(s, key, stop) ==
    LET starts == {i \in 1..Len(s) :
                      /\ OccursAt(s, key, i)
                      /\ i + Len(key) <= Len(s)
                      /\ s[i + Len(key)] # stop}
        from == Min(starts) + Len(key)
    IN  IF starts = {} THEN <<>>
        ELSE SubSeq(s, from, SkipNotClass(s, from, {stop}) - 1)

\* lines 287-296
video_id_of(u) ==
    IF Contains(u, <<"y","o","u","t","u","b","e",".","c","o","m">>) THEN SearchAfter(u, <<"v","=">>, "&")
    ELSE IF Contains(u, <<"y","o","u","t","u",".","b","e">>) THEN SearchAfter(u, <<"y","o","u","t","u",".","b","e","/">>, "?")
    ELSE <<>>

_extract_youtube(u, response) ==
    LET soup == _make_request(response)
        title == soup.og_title
        description == soup.og_description
        image == soup.og_image
        video_id == video_id_of(u)
    IN  IF soup = NoSoup
        THEN Return(Fail("Failed to fetch YouTube video"), PageRequest)
        ELSE IF KeyErrorIn({title, description})
                  \/ (video_id = <<>> /\ KeyErrorIn({image}))
        THEN Raise("KeyError", PageRequest)
        ELSE Return([success |-> TRUE,
                     platform |-> "youtube",
                     url |-> u,
                     title |-> ContentOr(title, <<"Y","o","u","T","u","b","e"," ","V","i","d","e","o">>),
                     caption |-> ContentOr(description, <<>>),
                     image_url |-> IF video_id # <<>>
                                   THEN <<"h","t","t","p","s",":","/","/","i","m","g",".","y","o","u","t","u","b","e",".","c","o","m","/","v","i","/">> \o video_id
                                            \o <<"/","m","a","x","r","e","s","d","e","f","a","u","l","t",".","j","p","g">>
                                   ELSE ContentOr(image, <<>>),
                     video_id |-> video_id,
                     media_type |-> "video"], PageRequest)

(***************************************************************************)
(* _extract_generic                                                        *)
(***************************************************************************)
MainContentMax == 500

MaxParagraphs == 5

\* ' '.join(words)
RECURSIVE JoinWords(_)
JoinWords(words) ==
    IF words = <<>> THEN <<>>
    ELSE IF Len(words) = 1 THEN words[1]
    ELSE words[1] \o <<" ">> \o JoinWords(Tail(words))

_extract_generic(u, response) ==
    LET soup == _make_request(response)
        title_tag == soup.title_tag
        og_title == soup.og_title
        title == IF title_tag = NoTag THEN ContentOr(og_title, <<"U","n","t","i","t","l","e","d">>)
                 ELSE IF title_tag = NoString THEN None
                 ELSE title_tag
        meta_description == soup.meta_description
        og_description == soup.og_description
        description == IF meta_description = NoTag
                       THEN ContentOr(og_description, <<>>)
                       ELSE GetContent(meta_description)
        image == soup.og_image
        author_meta == soup.meta_author
        author == IF author_meta = NoTag THEN <<>> ELSE GetContent(author_meta)
        article == soup.article
        main_content == IF article = NoTag THEN <<>>
                        ELSE JoinWords(Prefix(article, MaxParagraphs))
    IN  IF soup = NoSoup
        THEN Return(Fail("Failed to fetch webpage"), PageRequest)
        ELSE IF \/ (title_tag = NoTag /\ KeyErrorIn({og_title}))
                \/ (meta_description = NoTag /\ KeyErrorIn({og_description}))
                \/ KeyErrorIn({image})
        THEN Raise("KeyError", PageRequest)
        ELSE Return([success |-> TRUE,
                     platform |-> "blog",
                     url |-> u,
                     title |-> IF title # None /\ title # <<>>
                               THEN Strip(title) ELSE <<"U","n","t","i","t","l","e","d">>,
                     caption |-> IF description # <<>>
                                 THEN Strip(description)
                                 ELSE Prefix(main_content, MainContentMax),
                     image_url |-> ContentOr(image, <<>>),
                     author |-> author,
                     media_type |-> "article"], PageRequest)


(***************************************************************************)
(* _extract_twitter                                                        *)
(***************************************************************************)
\* re.sub(r'<[^>]+>', '', s)
RECURSIVE StripTags(_)
StripTags(s) ==
    LET close == SkipNotClass(s, 2, {">"})
    IN  IF s = <<>> THEN <<>>
        ELSE IF s[1] = "<" /\ close > 2 /\ close <= Len(s)
             THEN StripTags(Suffix(s, close + 1))
             ELSE <<s[1]>> \o StripTags(Tail(s))

\* the character references html.unescape knows, of which the model keeps
\* these; a reference is replaced once and its replacement is not read again
Html5Entities == <<
    [name |-> <<"a","m","p",";">>,  char |-> "&"],  [name |-> <<"l","t",";">>,   char |-> "<"],
    [name |-> <<"g","t",";">>,   char |-> ">"],  [name |-> <<"q","u","o","t",";">>, char |-> "\""],
    [name |-> <<"a","m","p">>,   char |-> "&"],  [name |-> <<"l","t">>,    char |-> "<"],
    [name |-> <<"g","t">>,    char |-> ">"],  [name |-> <<"q","u","o","t">>,  char |-> "\""] >>

\* html.unescape(s)
RECURSIVE Unescape(_)
Unescape(s) ==
    LET hits == {k \in 1..Len(Html5Entities) :
                    OccursAt(s, Html5Entities[k].name, 2)}
        e == Html5Entities[Min(hits)]
    IN  IF s = <<>> THEN <<>>
        ELSE IF s[1] = "&" /\ hits # {}
             THEN <<e.char>> \o Unescape(Suffix(s, 2 + Len(e.name)))
             ELSE <<s[1]>> \o Unescape(Tail(s))

\* the end of the match of \(@\w+\)\s*\w+\s+\d+,\s*\d+ at position p of s,
\* as the position after it, 0 when it does not match there; every
\* quantifier of it is followed by a character outside its class, so each
\* takes the whole run
AttributionTail(s, p) ==
    LET handle == p + 2
        afterHandle == SkipClass(s, handle, WordChars)
        month == SkipClass(s, afterHandle + 1, WhitespaceChars)
        afterMonth == SkipClass(s, month, WordChars)
        day == SkipClass(s, afterMonth, WhitespaceChars)
        afterDay == SkipClass(s, day, SeqRange(DigitChars))
        year == SkipClass(s, afterDay + 1, WhitespaceChars)
        afterYear == SkipClass(s, year, SeqRange(DigitChars))
    IN  IF /\ OccursAt(s, <<"(", "@">>, p)
           /\ afterHandle > handle
           /\ OccursAt(s, <<")">>, afterHandle)
           /\ afterMonth > month
           /\ day > afterMonth
           /\ afterDay > day
           /\ OccursAt(s, <<",">>, afterDay)
           /\ afterYear > year
        THEN afterYear ELSE 0

\* the end of the match of the attribution pattern
\*   U+2014 \s* \S+ \s* \(@\w+\) \s* \w+ \s+ \d+ , \s* \d+
\* at position i of s, 0 when it does not match there: \S+ is greedy and
\* gives characters back until the rest matches
AttributionEnd(s, i) ==
    LET name == SkipClass(s, i + 1, WhitespaceChars)
        nameMax == SkipNotClass(s, name, WhitespaceChars)
        ends == {e \in (name + 1)..nameMax :
                    AttributionTail(s, SkipClass(s, e, WhitespaceChars)) > 0}
        best == CHOOSE e \in ends : \A f \in ends : f <= e
    IN  IF i <= Len(s) /\ s[i] = EmDash /\ ends # {}
        THEN AttributionTail(s, SkipClass(s, best, WhitespaceChars))
        ELSE 0

\* re.sub(attribution pattern, '', s)
RECURSIVE SubAttribution(_)
SubAttribution(s) ==
    IF s = <<>> THEN <<>>
    ELSE IF AttributionEnd(s, 1) > 0
         THEN SubAttribution(Suffix(s, AttributionEnd(s, 1)))
         ELSE <<s[1]>> \o SubAttribution(Tail(s))

\* strip_attribution_suffix: the substitution, then .strip()
strip_attribution_suffix(s) == Strip(SubAttribution(s))

\* s.replace('\\n', '\n')
RECURSIVE ReplaceEscapedNewline(_)
ReplaceEscapedNewline(s) ==
    IF s = <<>> THEN <<>>
    ELSE IF OccursAt(s, <<"\\", "n">>, 1)
         THEN <<"\n">> \o ReplaceEscapedNewline(Suffix(s, 3))
         ELSE <<s[1]>> \o ReplaceEscapedNewline(Tail(s))

\* re.search(key + '([^"]+)"', s).group(1), <<>> when there is no match
SearchQuoted(s, key) ==
    LET starts == {i \in 1..Len(s) :
                      /\ OccursAt(s, key, i)
                      /\ i + Len(key) <= Len(s)
                      /\ s[i + Len(key)] # "\""
                      /\ SkipNotClass(s, i + Len(key), {"\""}) <= Len(s)}
        from == Min(starts) + Len(key)
    IN  IF starts = {} THEN <<>>
        ELSE SubSeq(s, from, SkipNotClass(s, from, {"\""}) - 1)

TweetBy == <<"T","w","e","e","t"," ","b","y"," ">>
TwitterPost == <<"T","w","i","t","t","e","r"," ","P","o","s","t">>

\* f'Tweet by {author}' if author else 'Twitter Post'
TweetTitle(author) ==
    IF author # <<>> /\ author # None THEN TweetBy \o author ELSE TwitterPost

\* lines 159-186: the dict the oEmbed branch returns, NoResult when the
\* branch is left without returning (an exception of the request, of .json()
\* or of the text handling, or a status other than 200)
OEmbedResult(u, oembed) ==
    LET html_content == IF oembed.html = Missing THEN <<>> ELSE oembed.html
        author == IF oembed.author_name = Missing THEN <<>>
                  ELSE oembed.author_name
        text == strip_attribution_suffix(Unescape(Strip(StripTags(html_content))))
    IN  IF \/ oembed.status # "ok"
           \/ oembed.body # "object"
           \/ html_content \in {None, JNumber}
        THEN NoResult
        ELSE [success |-> TRUE,
              platform |-> "twitter",
              url |-> u,
              title |-> TweetTitle(author),
              caption |-> text,
              image_url |-> <<>>,
              author |-> author,
              media_type |-> "tweet"]

\* lines 236-240: the handle in the URL
url_author(u) == SearchAfter(u, <<"t","w","i","t","t","e","r",".","c","o","m","/">>, "/")

\* lines 243-252
TwitterFallback(u) ==
    LET author == url_author(u)
    IN  [success |-> TRUE,
         platform |-> "twitter",
         url |-> u,
         title |-> TweetTitle(author),
         caption |-> IF author # <<>>
                     THEN TweetBy \o author \o <<" ","U+2014"," ","c","l","i","c","k"," ","t","o"," ","v","i","e","w">>
                     ELSE <<"T","w","i","t","t","e","r"," ","P","o","s","t"," ","U+2014"," ","c","l","i","c","k"," ","t","o"," ","v","i","e","w">>,
         image_url |-> <<>>,
         author |-> author,
         media_type |-> "tweet"]

\* the request of line 159, and the two requests of a call that went on
\* to line 191
OEmbedRequest == <<"oembed">>
OEmbedThenPage == <<"oembed", "page">>

\* the outcome o, marked with the source that built its result: "oembed"
\* (line 177), "page" (line 225) or "url" (line 243)
Via(o, source) ==
    [kind |-> o.kind, value |-> o.value, exc |-> o.exc,
     requests |-> o.requests, via |-> source]

\* lines 191-252: the page fetch and the fallback from the URL
\* lines 199-219: the caption the page yields, from the meta description
\* or from the embedded state
TwitterPageCaption(soup) ==
    LET description == IF soup.og_description # NoTag THEN soup.og_description
                       ELSE soup.meta_description
        meta_caption == IF description # NoTag
                        THEN Unescape(GetContent(description)) ELSE <<>>
        script == soup.state_script
        text_match == IF script = NoTag THEN <<>>
                      ELSE SearchQuoted(script, <<"\"","t","e","x","t","\"",":","\"">>)
    IN  IF text_match # <<>> THEN ReplaceEscapedNewline(text_match)
        ELSE meta_caption

TwitterPage(u, response) ==
    LET soup == _make_request(response)
        title == soup.og_title
        image == soup.og_image
        script == soup.state_script
        author == IF script = NoTag THEN <<>>
                  ELSE SearchQuoted(script, <<"\"","s","c","r","e","e","n","_","n","a","m","e","\"",":","\"">>)
        caption == TwitterPageCaption(soup)
    IN  IF soup = NoSoup \/ caption = <<>>
        THEN Via(Return(TwitterFallback(u), OEmbedThenPage), "url")
        ELSE IF KeyErrorIn({title, image})
        THEN Via(Raise("KeyError", OEmbedThenPage), "page")
        ELSE Via(Return([success |-> TRUE,
                         platform |-> "twitter",
                         url |-> u,
                         title |-> ContentOr(title, TweetTitle(author)),
                         caption |-> strip_attribution_suffix(caption),
                         image_url |-> ContentOr(image, <<>>),
                         author |-> author,
                         media_type |-> "tweet"], OEmbedThenPage), "page")

\* mutant of _extract_twitter: the oEmbed answer is not used
_extract_twitter_skips_oembed(u, oembed, response) ==
    TwitterPage(u, response)

\* the oEmbed request is answered by oembed; response answers the page
\* request, which is issued only when the oEmbed branch returned nothing
_extract_twitter(u, oembed, response) ==
    IF OEmbedResult(u, oembed) # NoResult
    THEN Via(Return(OEmbedResult(u, oembed), OEmbedRequest), "oembed")
    ELSE TwitterPage(u, response)


(***************************************************************************)
(* The inputs of the model: the URLs a caller passes and what the remote   *)
(* side may answer.                                                        *)
(***************************************************************************)
Urls == {
    <<"n","o","t"," ","a"," ","u","r","l">>,
    <<"f","b",".","c","o","m","/","p">>,
    <<"m","a","i","l","t","o",":","a","@","x",".","c","o","m">>,
    <<"h","t","t","p",":","/","/","[","x",".","c","o","m","/","a">>,
    <<"h","t","t","p","s",":","/","/","i","n","s","t","a","g","r","a","m",".","c","o","m","/","p","/","1">>,
    <<"h","t","t","p","s",":","/","/","t","w","i","t","t","e","r",".","c","o","m","/","a","l","/","s","t","a","t","u","s","/","1">>,
    <<"h","t","t","p","s",":","/","/","x",".","c","o","m","/","b","o","b">>,
    <<"h","t","t","p","s",":","/","/","n","e","t","f","l","i","x",".","c","o","m","/">>,
    <<"H","T","T","P","S",":","/","/","F","B",".","C","O","M","/","x",".","c","o","m">>,
    <<"h","t","t","p","s",":","/","/","f","b",".","c","o","m","/","p">>,
    <<"h","t","t","p","s",":","/","/","w","w","w",".","y","o","u","t","u","b","e",".","c","o","m","/","w","a","t","c","h","?","v","=","a","b","c","1","2","3">>,
    <<"h","t","t","p","s",":","/","/","y","o","u","t","u",".","b","e","/","a","b","?","t","=","1">>,
    <<"h","t","t","p","s",":","/","/","y","o","u","t","u","b","e",".","c","o","m","/","c">>,
    <<"H","T","T","P","S",":","/","/","Y","O","U","T","U","B","E",".","C","O","M","/","W","A","T","C","H","?","V","=","1">>,
    <<"h","t","t","p","s",":","/","/","Y","o","u","T","u","b","e",".","c","o","m","/","w","a","t","c","h","?","v","=","a","b","c","1","2","3">>,
    <<"h","t","t","p","s",":","/","/","t","i","k","t","o","k",".","c","o","m","/","v">>,
    <<"h","t","t","p","s",":","/","/","l","i","n","k","e","d","i","n",".","c","o","m","/","i","n">>,
    <<"h","t","t","p","s",":","/","/","r","e","d","d",".","i","t","/","a">>,
    <<"h","t","t","p","s",":","/","/","p","i","n",".","i","t","/","a">>,
    <<"h","t","t","p","s",":","/","/","b","l","o","g",".","i","o","/","a">> }

OgTitles == {NoTag, NoContent, <<"D","e","m","o"," ","V","i","d","e","o">>}

OgDescriptions ==
    {NoTag, NoContent, <<>>,
     <<"G","r","e","a","t"," ","d","a","y","!"," ","#","f","u","n"," ","@","f","r","i","e","n","d"," ","U+1F60A"," ","M","o","r","e"," ","t","e","x","t"," ","h","e","r","e",".">>}

OgImages == {NoTag, NoContent, <<"/","i","m","g","/","a",".","p","n","g">>, <<"h","t","t","p","s",":","/","/","c","d","n",".","i","o","/","a",".","p","n","g">>}

FailedFetches == {"transport", "status"}

\* the answers to a page request that are no document
NoDocuments == {[fetch |-> f, doc |-> NoSoup] : f \in FailedFetches}

Document(d) == [fetch |-> "ok", doc |-> d]

OgDocuments ==
    {Document([og_title |-> t, og_description |-> d, og_image |-> i]) :
        t \in OgTitles, d \in OgDescriptions, i \in OgImages}

\* window._sharedData of an Instagram page: no such script, a script whose
\* JSON does not parse, JSON without entry_data.PostPage, or a post
SharedData ==
    {[kind |-> k, text |-> Missing, username |-> Missing] :
        k \in {"none", "unparseable", "no_post_page"}}
    \cup {[kind |-> "post", text |-> t, username |-> n] :
            t \in {Missing, None, JNumber, BadShape, <<"S","u","n","."," ","#","x">>},
            n \in {Missing, BadShape, <<"a","n","n">>}}

InstagramDocuments ==
    {Document([og_title |-> t, og_description |-> d, og_image |-> i,
               shared_data |-> j]) :
        t \in OgTitles, d \in OgDescriptions, i \in OgImages, j \in SharedData}

\* a paragraph of n characters c
Paragraph(n, c) == [k \in 1..n |-> c]

ParagraphLen == 120

Articles ==
    {NoTag,
     << <<"O","n","e",".">>, <<"T","w","o",".">> >>,
     [k \in 1..6 |-> Paragraph(ParagraphLen, LowerChars[k])]}

GenericDocuments ==
    {Document([title_tag |-> tt, og_title |-> t, meta_description |-> md,
               og_description |-> d, og_image |-> i, meta_author |-> a,
               article |-> ar]) :
        tt \in {NoTag, NoString, <<" ","M","y"," ","B","l","o","g"," ">>},
        t \in OgTitles,
        md \in {NoTag, NoContent, <<" ","A","b","o","u","t","."," ">>},
        d \in {NoTag, NoContent, <<"G","r","e","a","t"," ","d","a","y","!">>},
        i \in OgImages,
        a \in {NoTag, NoContent, <<"A","n","n">>},
        ar \in Articles}

\* window.__INITIAL_STATE__ of a Twitter page
StateScripts ==
    {NoTag,
     <<"w","i","n","d","o","w",".","_","_","I","N","I","T","I","A","L","_","S","T","A","T","E","_","_","=","{","\"","t","e","x","t","\"",":","\"","H","i","\\","n","a","l","l","\"",",","\"","s","c","r","e","e","n","_","n","a","m","e","\"",":","\"","a","l","\"","}">>,
     <<"w","i","n","d","o","w",".","_","_","I","N","I","T","I","A","L","_","S","T","A","T","E","_","_","=","{","\"","t","e","x","t","\"",":","\"","\"","}">>}

TwitterDocuments ==
    {Document([og_title |-> t, og_description |-> d, og_image |-> i,
               meta_description |-> md, state_script |-> sc]) :
        t \in OgTitles,
        d \in {NoTag, NoContent, <<"A"," ","&","a","m","p",";"," ","B">>},
        i \in OgImages,
        md \in {NoTag, <<"M","e","t","a">>},
        sc \in StateScripts}

\* the answers of the oEmbed endpoint
OEmbeds ==
    {[status |-> st, body |-> "none", html |-> Missing, author_name |-> Missing] :
        st \in {"raise", "non200"}}
    \cup {[status |-> "ok", body |-> b, html |-> Missing, author_name |-> Missing] :
            b \in {"not_json", "not_object"}}
    \cup {[status |-> "ok", body |-> "object", html |-> h, author_name |-> a] :
            h \in {Missing, None,
                   <<"<","p",">","H","e","l","l","o"," ","w","o","r","l","d","<","/","p",">">>,
                   <<"<","p",">","H","i"," ","&","l","t",";","3","<","/","p",">","U+2014"," ","J","o"," ","(","@","j","o",")"," ","M","a","y"," ","2",","," ","2","0","2","6">>},
            a \in {Missing, None, <<"J","a","n","e">>}}


(***************************************************************************)
(* extract_with_retry, lines 460-469                                       *)
(***************************************************************************)
\* mutant of LoopContinues: the loop runs once more than range(max_retries)
LoopContinuesOnceMore(a, n) == a + 1 <= n

\* range(max_retries) has an element after a
LoopContinues(a, n) == a + 1 < n

\* mutant of AfterAttempt: a successful result does not end the loop
AfterAttemptNoEarlyReturn(r, a, n) ==
    IF a < n - 1 THEN "sleep" ELSE "loop"

\* mutant of AfterAttempt: the loop sleeps after the last attempt as well
AfterAttemptSleepsAfterLast(r, a, n) ==
    IF r.success THEN "done" ELSE "sleep"

\* mutant of AfterAttempt: the loop gives up on a validation failure
AfterAttemptGivesUpOnInvalid(r, a, n) ==
    IF r.success \/ r.error = "Invalid URL format" THEN "done"
    ELSE IF a < n - 1 THEN "sleep"
    ELSE "loop"

\* lines 462-467: where the loop body goes once extract returned r in
\* iteration a
AfterAttempt(r, a, n) ==
    IF r.success THEN "done"
    ELSE IF a < n - 1 THEN "sleep"
    ELSE "loop"

\* mutant of FinalResult: the wrapper reports an error of its own
FinalResultSynthesized(r) == [success |-> FALSE, error |-> "Max retries exceeded"]

\* line 469: what is returned once the loop is exhausted
FinalResult(r) == r

(***************************************************************************)
(* The state machine: one call at a time of extract, extract_with_retry or *)
(* detect_platform, from a caller that passes any URL of Urls.             *)
(***************************************************************************)
\* what the oEmbed endpoint answered, as far as lines 159-188 look at it
NoOEmbed == [status |-> "none", body |-> "none", html |-> "none"]

OEmbedAnswer(o) ==
    [status |-> o.status,
     body |-> o.body,
     html |-> IF o.html = Missing THEN "missing"
              ELSE IF o.html = None THEN "null"
              ELSE "text"]

\* what the page request of _extract_twitter came to: no document, a
\* document that yields no caption, or one that yields a caption
PageAnswer(r) ==
    IF r.fetch # "ok" THEN r.fetch
    ELSE IF TwitterPageCaption(r.doc) = <<>> THEN "no_caption"
    ELSE "ok"

\* what the remote side answered in one invocation: the oEmbed answer, the
\* outcome of the page request, and the source the strategy built from
Remote(o, f, v) == [oembed |-> o, fetch |-> f, via |-> v]

NoRemote == Remote(NoOEmbed, "none", "none")

\* no previous call
NoCall == [entry |-> "none", url |-> <<>>, platform |-> "none", outcome |-> "none"]

\* no call of extract with recorded answers yet
NoPage == [called |-> FALSE]

\* no call of a collection function yet
NoOp == [fn |-> "none"]

\* no call of get_streak_stats yet
NoStats == [called |-> FALSE]

\* no call of a normaliser yet
NoNorm == [op |-> "none", input |-> <<>>, output |-> <<>>, passes |-> 0]

Init ==
    /\ pc = "idle"
    /\ entry = "none"
    /\ url = <<>>
    /\ max_retries = 0
    /\ attempt = -1
    /\ platform = "none"
    /\ result = NoResult
    /\ returned = NoResult
    /\ exc = "none"
    /\ calls = 0
    /\ netCalls = 0
    /\ sleeps = 0
    /\ invoked = <<>>
    /\ history = <<>>
    /\ events = <<>>
    /\ requests = <<>>
    /\ last = NoRemote
    /\ log = NoCall
    /\ norm = NoNorm
    /\ fetches = <<>>
    /\ saved_content = <<>>
    /\ collections = <<>>
    /\ web = <<>>
    /\ stats = NoStats
    /\ page = NoPage
    /\ op = NoOp

\* extract_content(url): extractor.extract(url)
CallExtract ==
    /\ pc = "idle"
    /\ \E u \in Urls : url' = u
    /\ entry' = "extract"
    /\ pc' = "dispatch"
    /\ UNCHANGED <<max_retries, attempt, platform, result, returned, exc,
                   calls, netCalls, sleeps, invoked, history,
                   events, requests, last, log, norm, fetches, appVars>>

\* extract_content_with_retry(url, max_retries)
CallExtractWithRetry ==
    /\ pc = "idle"
    /\ \E u \in Urls : url' = u
    /\ \E n \in 0..MaxRetries : max_retries' = n
    /\ entry' = "extract_with_retry"
    /\ pc' = "loop"
    /\ UNCHANGED <<attempt, platform, result, returned, exc, calls, netCalls,
                   sleeps, invoked, history,
                   events, requests, last, log, norm, fetches, appVars>>

\* detect_platform(url)
CallDetectPlatform ==
    /\ pc = "idle"
    /\ \E u \in Urls : url' = u /\ platform' = detect_platform(u)
    /\ entry' = "detect_platform"
    /\ pc' = "done"
    /\ UNCHANGED <<max_retries, attempt, result, returned, exc, calls,
                   netCalls, sleeps, invoked, history,
                   events, requests, last, log, norm, fetches, appVars>>

\* line 460: the next iteration of the loop
LoopIterate ==
    /\ pc = "loop"
    /\ LoopContinues(attempt, max_retries)
    /\ attempt' = attempt + 1
    /\ pc' = "dispatch"
    /\ UNCHANGED <<entry, url, max_retries, platform, result, returned, exc,
                   calls, netCalls, sleeps, invoked, history,
                   events, requests, last, log, norm, fetches, appVars>>

\* line 469 after the last iteration: `return result`, which raises
\* UnboundLocalError when no iteration bound it
LoopExit ==
    /\ pc = "loop"
    /\ ~LoopContinues(attempt, max_retries)
    /\ IF result = NoResult
       THEN /\ pc' = "raised"
            /\ exc' = "UnboundLocalError"
            /\ returned' = returned
       ELSE /\ pc' = "done"
            /\ exc' = exc
            /\ returned' = FinalResult(result)
    /\ UNCHANGED <<entry, url, max_retries, attempt, platform, result, calls,
                   netCalls, sleeps, invoked, history,
                   events, requests, last, log, norm, fetches, appVars>>

\* lines 465-467
Sleep ==
    /\ pc = "sleep"
    /\ sleeps' = sleeps + 1
    /\ events' = Append(events, "sleep")
    /\ pc' = "loop"
    /\ UNCHANGED <<entry, url, max_retries, attempt, platform, result,
                   returned, exc, calls, netCalls, invoked, history,
                   requests, last, log, norm, fetches, appVars>>

\* mutant of Complete: a failure is remembered, and a later call of extract
\* with the same URL is answered from memory
CompleteFromCache(o, tag, strategy) ==
    LET cached == /\ log.entry = "extract"
                  /\ log.url = url
                  /\ log.outcome = "failure"
        c == IF cached THEN Return(Fail("Failed to fetch"), <<>>) ELSE o
        ran == IF cached THEN <<>> ELSE strategy
    IN
        /\ calls' = calls + 1
        /\ netCalls' = netCalls + Len(c.requests)
        /\ requests' = requests \o c.requests
        /\ events' = Append(events, "call")
        /\ platform' = tag
        /\ invoked' = invoked \o ran
        /\ IF c.kind = "raise"
           THEN /\ pc' = "raised"
                /\ exc' = c.exc
                /\ UNCHANGED <<result, returned, history>>
           ELSE /\ exc' = exc
                /\ history' = Append(history, c.value)
                /\ IF entry = "extract"
                   THEN /\ pc' = "done"
                        /\ returned' = c.value
                        /\ result' = result
                   ELSE /\ pc' = AfterAttempt(c.value, attempt, max_retries)
                        /\ result' = c.value
                        /\ returned' = IF pc' = "done" THEN c.value ELSE returned
        /\ UNCHANGED <<entry, url, max_retries, attempt, sleeps, log, norm, appVars>>

\* one invocation of extract came to the outcome o, having classified the
\* URL as tag (or not at all) and invoked the strategies in strategy
Complete(o, tag, strategy) ==
    /\ calls' = calls + 1
    /\ netCalls' = netCalls + Len(o.requests)
    /\ requests' = requests \o o.requests
    /\ events' = Append(events, "call")
    /\ platform' = tag
    /\ invoked' = invoked \o strategy
    /\ IF o.kind = "raise"
       THEN /\ pc' = "raised"
            /\ exc' = o.exc
            /\ UNCHANGED <<result, returned, history>>
       ELSE /\ exc' = exc
            /\ history' = Append(history, o.value)
            /\ IF entry = "extract"
               THEN /\ pc' = "done"
                    /\ returned' = o.value
                    /\ result' = result
               ELSE /\ pc' = AfterAttempt(o.value, attempt, max_retries)
                    /\ result' = o.value
                    /\ returned' = IF pc' = "done" THEN o.value ELSE returned
    /\ UNCHANGED <<entry, url, max_retries, attempt, sleeps, log, norm, appVars>>

\* extract, lines 38-42: the URL is not valid
ExtractInvalid ==
    /\ pc = "dispatch"
    /\ ~is_valid_url(url)
    /\ Complete(Return(Fail("Invalid URL format"), <<>>), platform, <<>>)
    /\ last' = NoRemote
    /\ fetches' = Append(fetches, "none")

\* mutant of Dispatches: any strategy is taken for a valid URL
DispatchesAnyStrategy(tag) ==
    /\ pc = "dispatch"
    /\ is_valid_url(url)

\* extract, lines 44-59, for a valid URL that detect_platform tags as tag
Dispatches(tag) ==
    /\ pc = "dispatch"
    /\ is_valid_url(url)
    /\ detect_platform(url) = tag

ExtractInstagram ==
    /\ Dispatches("instagram")
    /\ \E r \in NoDocuments \cup InstagramDocuments :
          /\ Complete(_extract_instagram(url, r), "instagram", <<"_extract_instagram">>)
          /\ last' = Remote(NoOEmbed, r.fetch, "page")
          /\ fetches' = Append(fetches, r.fetch)

ExtractTwitter ==
    /\ Dispatches("twitter")
    /\ \E o \in OEmbeds :
          \E r \in IF OEmbedResult(url, o) # NoResult
                   THEN {[fetch |-> "unused", doc |-> NoSoup]}
                   ELSE NoDocuments \cup TwitterDocuments :
              /\ Complete(_extract_twitter(url, o, r), "twitter",
                          <<"_extract_twitter">>)
              /\ last' = Remote(OEmbedAnswer(o), PageAnswer(r),
                                _extract_twitter(url, o, r).via)
              /\ fetches' = Append(fetches, r.fetch)

ExtractFacebook ==
    /\ Dispatches("facebook")
    /\ \E r \in NoDocuments \cup OgDocuments :
          /\ Complete(_extract_facebook(url, r), "facebook", <<"_extract_facebook">>)
          /\ last' = Remote(NoOEmbed, r.fetch, "page")
          /\ fetches' = Append(fetches, r.fetch)

ExtractYoutube ==
    /\ Dispatches("youtube")
    /\ \E r \in NoDocuments \cup OgDocuments :
          /\ Complete(_extract_youtube(url, r), "youtube", <<"_extract_youtube">>)
          /\ last' = Remote(NoOEmbed, r.fetch, "page")
          /\ fetches' = Append(fetches, r.fetch)

ExtractTiktok ==
    /\ Dispatches("tiktok")
    /\ \E r \in NoDocuments \cup OgDocuments :
          /\ Complete(_extract_tiktok(url, r), "tiktok", <<"_extract_tiktok">>)
          /\ last' = Remote(NoOEmbed, r.fetch, "page")
          /\ fetches' = Append(fetches, r.fetch)

ExtractLinkedin ==
    /\ Dispatches("linkedin")
    /\ \E r \in NoDocuments \cup OgDocuments :
          /\ Complete(_extract_linkedin(url, r), "linkedin", <<"_extract_linkedin">>)
          /\ last' = Remote(NoOEmbed, r.fetch, "page")
          /\ fetches' = Append(fetches, r.fetch)

ExtractReddit ==
    /\ Dispatches("reddit")
    /\ \E r \in NoDocuments \cup OgDocuments :
          /\ Complete(_extract_reddit(url, r), "reddit", <<"_extract_reddit">>)
          /\ last' = Remote(NoOEmbed, r.fetch, "page")
          /\ fetches' = Append(fetches, r.fetch)

ExtractPinterest ==
    /\ Dispatches("pinterest")
    /\ \E r \in NoDocuments \cup OgDocuments :
          /\ Complete(_extract_pinterest(url, r), "pinterest", <<"_extract_pinterest">>)
          /\ last' = Remote(NoOEmbed, r.fetch, "page")
          /\ fetches' = Append(fetches, r.fetch)

ExtractGeneric ==
    /\ Dispatches("blog")
    /\ \E r \in NoDocuments \cup GenericDocuments :
          /\ Complete(_extract_generic(url, r), "blog", <<"_extract_generic">>)
          /\ last' = Remote(NoOEmbed, r.fetch, "page")
          /\ fetches' = Append(fetches, r.fetch)

Next ==
    \/ CallExtract
    \/ CallExtractWithRetry
    \/ CallDetectPlatform
    \/ LoopIterate
    \/ LoopExit
    \/ Sleep
    \/ ExtractInvalid
    \/ ExtractInstagram
    \/ ExtractTwitter
    \/ ExtractFacebook
    \/ ExtractYoutube
    \/ ExtractTiktok
    \/ ExtractLinkedin
    \/ ExtractReddit
    \/ ExtractPinterest
    \/ ExtractGeneric

Spec == Init /\ [][Next]_vars

(***************************************************************************)
(* The text normalisers, applied to the captions a page may carry.         *)
(***************************************************************************)
NoiseChars == {"#", "@", "a", ".", " ", "U+1F60A"}

\* every text of at most MaxCaptionLen characters of NoiseChars
ShortCaptions == UNION {[1..k -> NoiseChars] : k \in 0..MaxCaptionLen}

\* texts about TitleMaxLen characters long, with and without a sentence
LongCaptions ==
    {Paragraph(n, "a") \o tail :
        n \in (TitleMaxLen - 2)..(TitleMaxLen + 2),
        tail \in {<<>>, <<".">>, <<" ","b",".">>, <<"."," ","b">>, <<" ","b","b","b">>, <<" ","#","b",".",".","U+1F60A">>}}

Captions == ShortCaptions \cup LongCaptions

\* _clean_instagram_title(caption), for a caption or None
CallCleanTitle ==
    /\ pc = "idle"
    /\ norm = NoNorm
    /\ \E c \in Captions \cup {None} :
          norm' = [op |-> "_clean_instagram_title", input |-> c,
                   output |-> _clean_instagram_title(c), passes |-> 1]
    /\ UNCHANGED <<pc, entry, url, max_retries, attempt, platform, result,
                   returned, exc, calls, netCalls, sleeps, invoked, history,
                   events, requests, last, log, fetches, appVars>>

\* lines 78-97 applied to a caption
CallStripNoise ==
    /\ pc = "idle"
    /\ norm = NoNorm
    /\ \E c \in Captions :
          norm' = [op |-> "strip_social_noise", input |-> c,
                   output |-> strip_social_noise(c), passes |-> 1]
    /\ UNCHANGED <<pc, entry, url, max_retries, attempt, platform, result,
                   returned, exc, calls, netCalls, sleeps, invoked, history,
                   events, requests, last, log, fetches, appVars>>

\* lines 78-97 applied to their own output
StripNoiseAgain ==
    /\ pc = "idle"
    /\ norm.op = "strip_social_noise"
    /\ norm.passes = 1
    /\ norm' = [op |-> "strip_social_noise", input |-> norm.output,
                output |-> strip_social_noise(norm.output), passes |-> 2]
    /\ UNCHANGED <<pc, entry, url, max_retries, attempt, platform, result,
                   returned, exc, calls, netCalls, sleeps, invoked, history,
                   events, requests, last, log, fetches, appVars>>

\* the call is over and the caller goes on to its next call
NextCall ==
    /\ pc \in {"done", "raised"}
    /\ entry \in {"extract", "detect_platform"}
    /\ log' = [entry |-> entry,
               url |-> url,
               platform |-> platform,
               outcome |-> IF pc = "raised" THEN "raised"
                           ELSE IF entry = "detect_platform" THEN "none"
                           ELSE IF returned.success THEN "success"
                           ELSE "failure"]
    /\ pc' = "idle"
    /\ entry' = "none"
    /\ url' = <<>>
    /\ platform' = "none"
    /\ returned' = NoResult
    /\ exc' = "none"
    /\ calls' = 0
    /\ netCalls' = 0
    /\ invoked' = <<>>
    /\ history' = <<>>
    /\ events' = <<>>
    /\ requests' = <<>>
    /\ last' = NoRemote
    /\ fetches' = <<>>
    /\ UNCHANGED <<max_retries, attempt, result, sleeps, norm, appVars>>

\* a caller that calls extract and detect_platform one call after another
NextCalls ==
    \/ CallExtract
    \/ CallDetectPlatform
    \/ ExtractInvalid
    \/ ExtractInstagram
    \/ ExtractTwitter
    \/ ExtractFacebook
    \/ ExtractYoutube
    \/ ExtractTiktok
    \/ ExtractLinkedin
    \/ ExtractReddit
    \/ ExtractPinterest
    \/ ExtractGeneric
    \/ NextCall

SpecCalls == Init /\ [][NextCalls]_vars

\* extract(url), lines 28-59, with the answers of the remote side as
\* arguments: oembed answers the oEmbed request, response the page request
extract(u, oembed, response) ==
    IF ~is_valid_url(u)
    THEN Return(Fail("Invalid URL format"), <<>>)
    ELSE CASE detect_platform(u) = "instagram" -> _extract_instagram(u, response)
           [] detect_platform(u) = "twitter" -> _extract_twitter(u, oembed, response)
           [] detect_platform(u) = "facebook" -> _extract_facebook(u, response)
           [] detect_platform(u) = "youtube" -> _extract_youtube(u, response)
           [] detect_platform(u) = "tiktok" -> _extract_tiktok(u, response)
           [] detect_platform(u) = "linkedin" -> _extract_linkedin(u, response)
           [] detect_platform(u) = "reddit" -> _extract_reddit(u, response)
           [] detect_platform(u) = "pinterest" -> _extract_pinterest(u, response)
           [] detect_platform(u) = "blog" -> _extract_generic(u, response)

\* a request that is not issued
Unused == [fetch |-> "unused", doc |-> NoSoup]

NoOEmbedRequest ==
    [status |-> "unused", body |-> "none", html |-> Missing,
     author_name |-> Missing]

\* what the oEmbed endpoint may answer in a call of extract(u)
OEmbedAnswers(u) ==
    IF is_valid_url(u) /\ detect_platform(u) = "twitter"
    THEN OEmbeds ELSE {NoOEmbedRequest}

\* what the page request of a call of extract(u) may be answered, once the
\* oEmbed endpoint answered oembed
PageAnswers(u, oembed) ==
    IF ~is_valid_url(u) THEN {Unused}
    ELSE CASE detect_platform(u) = "instagram" ->
                  NoDocuments \cup InstagramDocuments
           [] detect_platform(u) = "twitter" ->
                  IF OEmbedResult(u, oembed) # NoResult THEN {Unused}
                  ELSE NoDocuments \cup TwitterDocuments
           [] detect_platform(u) = "blog" ->
                  NoDocuments \cup GenericDocuments
           [] OTHER -> NoDocuments \cup OgDocuments

\* one call of extract, kept with the answers it was given
ExtractPage ==
    /\ pc = "idle"
    /\ page = NoPage
    /\ \E u \in Urls :
          \E o \in OEmbedAnswers(u) :
              \E r \in PageAnswers(u, o) :
                  page' = [called |-> TRUE, url |-> u, oembed |-> o,
                           response |-> r, outcome |-> extract(u, o, r)]
    /\ UNCHANGED <<pc, entry, url, max_retries, attempt, platform, result,
                   returned, exc, calls, netCalls, sleeps, invoked, history,
                   events, requests, last, log, norm, fetches,
                   saved_content, collections, web, stats, op>>

NextPage == ExtractPage

SpecPage == Init /\ [][NextPage]_vars


(***************************************************************************)
(* app.py: the two handlers that save a URL, each request a sequence of    *)
(* steps; Flask serves requests in threads, so the steps of different      *)
(* requests interleave                                                     *)
(***************************************************************************)

MaxRequests == 2

Handlers == {"api_save_content", "whatsapp_webhook"}

\* the URLs of the requests
AppUrls ==
    {<<"h","t","t","p","s",":","/","/","f","b",".","c","o","m","/","p">>, <<"h","t","t","p","s",":","/","/","p","i","n",".","i","t","/","a">>, <<"h","t","t","p",":","/","/","[","x",".","c","o","m","/","a">>}

\* INSERT INTO saved_content, lines 60-82 of database.py: the new row gets
\* the next id, and no collection
save_content(rows, u) ==
    Append(rows, [id |-> Len(rows) + 1, url |-> u, collection |-> None])

NoRow == [id |-> 0]

\* SELECT * FROM saved_content WHERE url = ?, the first row or None
check_duplicate(rows, u) ==
    LET hits == {k \in 1..Len(rows) : rows[k].url = u}
    IN  IF hits = {} THEN NoRow ELSE rows[Min(hits)]

\* answers to the page request of a request: no page, a page without
\* meta tags, a page whose og:image tag has no content attribute
AppPages ==
    {[fetch |-> "status", doc |-> NoSoup],
     Document([og_title |-> NoTag, og_description |-> NoTag,
               og_image |-> NoTag]),
     Document([og_title |-> NoTag, og_description |-> NoTag,
               og_image |-> NoContent])}

\* what extract_content(u) may come to: a success=true result, a
\* success=false result, or an exception
Extractions(u) ==
    {IF o.kind = "raise" THEN "raised"
     ELSE IF o.value.success THEN "success" ELSE "failure" :
        o \in {extract(u, NoOEmbedRequest, r) : r \in AppPages}}

\* request i moves to position p
Goto(i, p) == web' = [web EXCEPT ![i].pc = p]

\* a request arrives: with a URL, or with none (no 'url' key in the JSON,
\* no URL in the message)
Receive ==
    /\ Len(web) < MaxRequests
    /\ \E h \in Handlers :
          \E u \in AppUrls \cup {Missing} :
              web' = Append(web, [handler |-> h, url |-> u, pc |-> "received",
                                  extracted |-> "none", row |-> 0])
    /\ UNCHANGED <<callVars, saved_content, collections, stats, page, op>>

\* lines 205-212 and 383-391
Validate ==
    /\ \E i \in 1..Len(web) :
          /\ web[i].pc = "received"
          /\ IF web[i].url = Missing THEN Goto(i, "no_url")
             ELSE IF ~is_valid_url(web[i].url) THEN Goto(i, "invalid")
             ELSE IF web[i].handler = "whatsapp_webhook" THEN Goto(i, "check")
             ELSE Goto(i, "extract")
    /\ UNCHANGED <<callVars, saved_content, collections, stats, page, op>>

\* lines 393-402 of the webhook
CheckDuplicate ==
    /\ \E i \in 1..Len(web) :
          /\ web[i].pc = "check"
          /\ IF check_duplicate(saved_content, web[i].url) # NoRow
             THEN Goto(i, "duplicate")
             ELSE Goto(i, "extract")
    /\ UNCHANGED <<callVars, saved_content, collections, stats, page, op>>

\* mutant of ExtractContent: a request goes on to save whatever the
\* extraction came to
ExtractContentThenSave ==
    /\ \E i \in 1..Len(web) :
          /\ web[i].pc = "extract"
          /\ \E e \in Extractions(web[i].url) :
                web' = [web EXCEPT ![i].extracted = e, ![i].pc = "save"]
    /\ UNCHANGED <<callVars, saved_content, collections, stats, page, op>>

\* lines 214-217 and 404-409: extract_content(url); an exception ends the
\* API request (status 500) and is caught by the webhook
ExtractContent ==
    /\ \E i \in 1..Len(web) :
          /\ web[i].pc = "extract"
          /\ \E e \in Extractions(web[i].url) :
                web' = [web EXCEPT ![i].extracted = e,
                                   ![i].pc = CASE e = "success" -> "save"
                                               [] e = "failure" -> "failed"
                                               [] e = "raised" -> "error"]
    /\ UNCHANGED <<callVars, saved_content, collections, stats, page, op>>

\* lines 219-251 and 411-433: process_content, which may raise, then
\* save_content; the API catches the exception and saves, the webhook
\* replies with an error
Save ==
    /\ \E i \in 1..Len(web) :
          /\ web[i].pc = "save"
          /\ \E ai \in {"ok", "raise"} :
                IF ai = "raise" /\ web[i].handler = "whatsapp_webhook"
                THEN /\ Goto(i, "error")
                     /\ UNCHANGED saved_content
                ELSE /\ saved_content' = save_content(saved_content, web[i].url)
                     /\ web' = [web EXCEPT ![i].row = Len(saved_content) + 1,
                                           ![i].pc = "saved"]
    /\ UNCHANGED <<callVars, collections, stats, page, op>>

NextApp == Receive \/ Validate \/ CheckDuplicate \/ ExtractContent \/ Save

SpecApp == Init /\ [][NextApp]_vars


(***************************************************************************)
(* database.py and app.py: collections                                     *)
(***************************************************************************)

MaxRows == 2

\* the values of the form fields name and collection
FormNames == {<<>>, <<"a">>, <<" ","a">>, <<"b">>}

\* INSERT OR IGNORE INTO collections (name), name being UNIQUE
create_collection(names, name) ==
    IF \E k \in 1..Len(names) : names[k] = name THEN names
    ELSE Append(names, name)

\* UPDATE saved_content SET collection = ? WHERE id = ?
assign_collection(rows, content_id, collection_name) ==
    [k \in 1..Len(rows) |->
        IF rows[k].id = content_id
        THEN [rows[k] EXCEPT !.collection = collection_name]
        ELSE rows[k]]

\* mutant of delete_collection: the rows keep the name
delete_collection_keeps_rows(rows, names, name) ==
    [saved_content |-> rows,
     collections |-> SelectSeq(names, LAMBDA n : n # name)]

\* UPDATE saved_content SET collection = NULL WHERE collection = ?, then
\* DELETE FROM collections WHERE name = ?, in one transaction
delete_collection(rows, names, name) ==
    [saved_content |->
        [k \in 1..Len(rows) |->
            IF rows[k].collection = name
            THEN [rows[k] EXCEPT !.collection = None]
            ELSE rows[k]],
     collections |-> SelectSeq(names, LAMBDA n : n # name)]

\* a call of a database function: called is false when the route returned
\* without calling it, rows is the number of rows the UPDATE matched
Op(fn, name, content_id, called, rows) ==
    [fn |-> fn, name |-> name, content_id |-> content_id,
     called |-> called, rows |-> rows]

\* save_content called with a URL, as the handlers and sample_data.py do
SaveRow ==
    /\ Len(saved_content) < MaxRows
    /\ \E u \in {v \in AppUrls : is_valid_url(v)} :
          saved_content' = save_content(saved_content, u)
    /\ op' = Op("save_content", <<>>, Len(saved_content) + 1, TRUE, 0)
    /\ UNCHANGED <<callVars, collections, web, stats, page>>

\* lines 755-762 of app.py
CreateCollectionRoute ==
    /\ \E f \in FormNames :
          LET name == Strip(f)
          IN  /\ collections' = IF name # <<>>
                                THEN create_collection(collections, name)
                                ELSE collections
              /\ op' = Op("create_collection", name, 0, name # <<>>, 0)
    /\ UNCHANGED <<callVars, saved_content, web, stats, page>>

\* lines 765-772 of app.py; content_id 0 is the form without content_id
AssignCollectionRoute ==
    /\ \E content_id \in 0..(MaxRows + 1) :
          \E collection \in FormNames :
              /\ saved_content' =
                     IF content_id # 0
                     THEN assign_collection(saved_content, content_id, collection)
                     ELSE saved_content
              /\ op' = Op("assign_collection", collection, content_id,
                          content_id # 0,
                          Cardinality({k \in 1..Len(saved_content) :
                                          /\ content_id # 0
                                          /\ saved_content[k].id = content_id}))
    /\ UNCHANGED <<callVars, collections, web, stats, page>>

\* lines 775-782 of app.py
DeleteCollectionRoute ==
    /\ \E f \in FormNames :
          LET name == Strip(f)
              after == delete_collection(saved_content, collections, name)
          IN  /\ saved_content' = IF name # <<>> THEN after.saved_content
                                  ELSE saved_content
              /\ collections' = IF name # <<>> THEN after.collections
                                ELSE collections
              /\ op' = Op("delete_collection", name, 0, name # <<>>,
                          Cardinality({k \in 1..Len(saved_content) :
                                          /\ name # <<>>
                                          /\ saved_content[k].collection = name}))
    /\ UNCHANGED <<callVars, web, stats, page>>

NextDb ==
    \/ SaveRow
    \/ CreateCollectionRoute
    \/ AssignCollectionRoute
    \/ DeleteCollectionRoute

SpecDb == Init /\ [][NextDb]_vars


(***************************************************************************)
(* database.py: get_streak_stats. A date is the number of days from today  *)
(* to it: 0 today, -1 yesterday, 1 tomorrow (DATE(timestamp) is a UTC      *)
(* date, today is local)                                                   *)
(***************************************************************************)

MaxDaysBack == 7

Days == (0 - MaxDaysBack)..1

\* ORDER BY save_date DESC
RECURSIVE Descending(_)
Descending(S) ==
    IF S = {} THEN <<>>
    ELSE LET top == CHOOSE d \in S : \A e \in S : e <= d
         IN  <<top>> \o Descending(S \ {top})

\* lines 346-348: the while loop from check_date
RECURSIVE WhileInSet(_, _)
WhileInSet(date_set, check_date) ==
    IF check_date \in date_set THEN 1 + WhileInSet(date_set, check_date - 1)
    ELSE 0

\* lines 353-360: the for loop, from index i with prev_date, streak and
\* best_streak as they stand; line 361 closes it
RECURSIVE ForDates(_, _, _, _, _)
ForDates(date_objects, i, prev_date, streak, best_streak) ==
    IF i > Len(date_objects)
    THEN IF best_streak > streak THEN best_streak ELSE streak
    ELSE IF prev_date - date_objects[i] = 1
    THEN ForDates(date_objects, i + 1, date_objects[i], streak + 1, best_streak)
    ELSE ForDates(date_objects, i + 1, date_objects[i], 1,
                  IF best_streak > streak THEN best_streak ELSE streak)

\* mutant of get_streak_stats: a streak that ended yesterday counts nothing
get_streak_stats_today_only(dates, total_this_week) ==
    LET date_set == {dates[k] : k \in 1..Len(dates)}
    IN  IF dates = <<>>
        THEN [current_streak |-> 0, total_this_week |-> 0, best_streak |-> 0]
        ELSE [current_streak |-> WhileInSet(date_set, 0),
              total_this_week |-> total_this_week,
              best_streak |-> ForDates(dates, 2, dates[1], 1, 0)]

\* lines 314-368, dates being the result of the first query and
\* total_this_week that of the second
get_streak_stats(dates, total_this_week) ==
    LET date_set == {dates[k] : k \in 1..Len(dates)}
        current_streak ==
            IF 0 \in date_set THEN 1 + WhileInSet(date_set, -1)
            ELSE IF -1 \in date_set THEN 1 + WhileInSet(date_set, -2)
            ELSE 0
    IN  IF dates = <<>>
        THEN [current_streak |-> 0, total_this_week |-> 0, best_streak |-> 0]
        ELSE [current_streak |-> current_streak,
              total_this_week |-> total_this_week,
              best_streak |-> ForDates(dates, 2, dates[1], 1, 0)]

\* the rows with timestamp >= datetime('now', '-7 days'), one row a day;
\* the row of the seventh day back is inside or outside by its time of day
ThisWeek(saved, inside) ==
    Cardinality({d \in saved : d > -7}) +
        (IF -7 \in saved /\ inside THEN 1 ELSE 0)

\* get_streak_stats() over a table whose rows were saved on the days saved
CallGetStreakStats ==
    /\ \E saved \in SUBSET Days :
          \E inside \in BOOLEAN :
              stats' = [called |-> TRUE,
                        dates |-> saved,
                        out |-> get_streak_stats(Descending(saved),
                                                 ThisWeek(saved, inside))]
    /\ UNCHANGED <<callVars, saved_content, collections, web, page, op>>

NextStats == CallGetStreakStats

SpecStats == Init /\ [][NextStats]_vars

NextText ==
    \/ CallCleanTitle
    \/ CallStripNoise
    \/ StripNoiseAgain

SpecText == Init /\ [][NextText]_vars


(***************************************************************************)
(* Properties                                                              *)
(***************************************************************************)
\* the dicts the call in progress has produced so far
Results ==
    SeqRange(history) \cup (IF returned = NoResult THEN {} ELSE {returned})

\* every invocation of extract so far returned a failure
AllFailed ==
    /\ exc = "none"
    /\ \A i \in 1..Len(history) : ~history[i].success

InRetry == entry = "extract_with_retry"

\* C1: when every invocation of extract fails, extract_with_retry(url, N)
\* with N >= 1 invokes extract exactly N times, then terminates and returns
\* a result with success = false: the loop variable stays in range(N), so
\* extract is never invoked more than N times; the loop can always take its
\* next step until the call has returned; and when it has returned it has
\* invoked extract N times and the result is a failure.
C1_AllFailInvokesExactlyN ==
    (InRetry /\ max_retries >= 1 /\ AllFailed) =>
        /\ attempt < max_retries
        /\ calls <= max_retries
        /\ pc \in {"loop", "dispatch", "sleep", "done"}
        /\ (pc = "dispatch" => calls = attempt)
        /\ (pc \in {"loop", "sleep"} =>
               (calls = attempt + 1 /\ ENABLED (LoopIterate \/ LoopExit \/ Sleep)))
        /\ (pc = "done" =>
               /\ calls = max_retries
               /\ Len(history) = max_retries
               /\ ~returned.success)

C1_Witness ==
    /\ InRetry /\ AllFailed
    /\ max_retries = 3
    /\ pc = "done"
    /\ calls = 3
    /\ ~returned.success

\* C2: extract_with_retry returns as soon as one invocation of extract
\* succeeds: a successful result is the last one in the history, the call
\* has returned with it, and the number of invocations is its position, at
\* most max_retries.
C2_ReturnsFirstSuccess ==
    InRetry =>
        \A k \in 1..Len(history) :
            history[k].success =>
                /\ k = Len(history)
                /\ k = calls
                /\ k <= max_retries
                /\ pc = "done"
                /\ returned = history[k]

C2_Witness ==
    /\ InRetry
    /\ max_retries = 3
    /\ pc = "done"
    /\ calls = 3
    /\ Len(history) = 3
    /\ ~history[1].success
    /\ ~history[2].success
    /\ history[3].success
    /\ returned = history[3]

\* C3: when all attempts fail, the result extract_with_retry returns is the
\* result of the last invocation of extract, with its error string.
C3_ReturnsLastFailure ==
    (InRetry /\ pc = "done" /\ ~returned.success) =>
        /\ Len(history) = max_retries
        /\ returned = history[Len(history)]
        /\ returned.error = history[Len(history)].error

C3_Witness ==
    /\ InRetry
    /\ pc = "done"
    /\ max_retries = 3
    /\ Len(history) = 3
    /\ ~returned.success
    /\ returned.error = "Failed to fetch Reddit post"

\* the string has no scheme or no host
LacksSchemeOrHost(u) == urlparse(u).scheme = <<>> \/ urlparse(u).netloc = <<>>

\* C4: for an input without a scheme or a host, extract returns
\* success = false with the error "Invalid URL format", and neither a
\* strategy nor an HTTP request is reached.
C4_InvalidUrlNoNetwork ==
    (entry = "extract" /\ LacksSchemeOrHost(url)) =>
        /\ netCalls = 0
        /\ invoked = <<>>
        /\ exc = "none"
        /\ (pc = "done" =>
               returned = [success |-> FALSE, error |-> "Invalid URL format"])

C4_Witness ==
    /\ entry = "extract"
    /\ url = <<"n","o","t"," ","a"," ","u","r","l">>
    /\ pc = "done"
    /\ calls = 1
    /\ returned.error = "Invalid URL format"

\* C5: extract never lets a fault escape: whatever the remote side answers,
\* a call of extract ends with a returned dict, not with an exception.
C5_ExtractNeverRaises ==
    entry = "extract" => (pc # "raised" /\ exc = "none")

\* C6: extract_with_retry(url, max_retries) returns a dict and does not
\* raise, for every max_retries >= 0.
C6_RetryNeverRaises ==
    (InRetry /\ max_retries >= 0) => (pc # "raised" /\ exc = "none")

ContentFields ==
    {"platform", "url", "title", "caption", "image_url", "author",
     "media_type", "video_id"}

\* C7: every result with success = false has a non-empty error string and
\* none of the content fields.
C7_FailureHasErrorOnly ==
    \A r \in Results :
        ~r.success =>
            /\ "error" \in DOMAIN r
            /\ r.error # ""
            /\ DOMAIN r \cap ContentFields = {}

C7_Witness ==
    /\ pc = "done"
    /\ returned = [success |-> FALSE, error |-> "Failed to fetch webpage"]
    /\ netCalls > 0

MediaTypes == {"post", "video", "image", "article", "tweet"}

\* C8: every result with success = true has platform, url (the input URL)
\* and media_type (one of the five kinds) populated, and a title and a
\* caption that are present and not None.
C8_SuccessIsPopulated ==
    \A r \in Results :
        r.success =>
            /\ {"platform", "url", "media_type", "title", "caption"} \subseteq DOMAIN r
            /\ r.platform \in ALLOWED_PLATFORMS
            /\ r.url = url
            /\ r.media_type \in MediaTypes
            /\ r.title # None
            /\ r.caption # None

\* a pattern of the table's entry for tag occurs in u, whatever the case
PatternOccurs(tag, u) ==
    \E i \in 1..Len(PLATFORM_PATTERNS) :
        /\ PLATFORM_PATTERNS[i].platform = tag
        /\ \E j \in 1..Len(PLATFORM_PATTERNS[i].patterns) :
              Contains(Lower(u), PLATFORM_PATTERNS[i].patterns[j])

\* C9: detect_platform returns one of the nine tags; a social tag only if
\* one of that platform's patterns occurs in the URL, and blog exactly when
\* no pattern of any platform occurs in it.
C9_ClassifierTotal ==
    platform # "none" =>
        /\ platform \in ALLOWED_PLATFORMS
        /\ (platform # "blog" => PatternOccurs(platform, url))
        /\ (platform = "blog" <=>
               \A tag \in ALLOWED_PLATFORMS : ~PatternOccurs(tag, url))

C9_Witness ==
    /\ entry = "detect_platform"
    /\ pc = "done"
    /\ url = <<"H","T","T","P","S",":","/","/","Y","O","U","T","U","B","E",".","C","O","M","/","W","A","T","C","H","?","V","=","1">>
    /\ platform = "youtube"

\* the text is an absolute URL: it has a scheme and a host
IsAbsoluteUrl(s) ==
    /\ ~urlparse(s).raises
    /\ urlparse(s).scheme # <<>>
    /\ urlparse(s).netloc # <<>>

\* C10: in every successful result image_url is the empty string or an
\* absolute URL, whatever the page supplies in og:image.
C10_ImageUrlAbsolute ==
    \A r \in Results :
        (r.success /\ "image_url" \in DOMAIN r) =>
            (r.image_url = <<>> \/ IsAbsoluteUrl(r.image_url))


\* C13: extract_with_retry sleeps exactly between consecutive invocations
\* of extract: invocations and sleeps alternate, starting with an
\* invocation; a sleep follows a failed invocation only, and is followed by
\* the next invocation, so that none comes after a success or after the
\* final attempt; N failing attempts incur N - 1 sleeps.
C13_DelayOnlyBetweenAttempts ==
    InRetry =>
        /\ \A i \in 1..Len(events) :
              events[i] = (IF i % 2 = 1 THEN "call" ELSE "sleep")
        /\ \A i \in 1..Len(events) :
              events[i] = "sleep" =>
                  /\ ~history[i \div 2].success
                  /\ (i = Len(events) =>
                         \/ pc = "loop" /\ attempt + 1 < max_retries
                         \/ pc = "dispatch")
        /\ sleeps = Len(events) \div 2
        /\ calls = (Len(events) + 1) \div 2
        /\ (pc \in {"done", "raised"} /\ calls > 0 =>
               sleeps = calls - 1)
        /\ (pc = "done" /\ AllFailed /\ max_retries >= 1 =>
               calls = max_retries /\ sleeps = max_retries - 1)

C13_Witness ==
    /\ InRetry /\ AllFailed
    /\ pc = "done"
    /\ events = <<"call", "sleep", "call", "sleep", "call">>
    /\ sleeps = 2

\* C14: extract_with_retry on an input without a scheme or a host does
\* not stop early: when the call ends extract has been invoked max_retries
\* times, every invocation returned the failure "Invalid URL format", no
\* strategy and no HTTP request was reached, and the result the call
\* returns is that failure (with max_retries >= 1 the call does return).
C14_InvalidUrlRetriesInVain ==
    (InRetry /\ LacksSchemeOrHost(url)) =>
        /\ netCalls = 0
        /\ requests = <<>>
        /\ invoked = <<>>
        /\ calls <= max_retries
        /\ \A i \in 1..Len(history) :
              history[i] = [success |-> FALSE, error |-> "Invalid URL format"]
        /\ (pc \in {"loop", "sleep"} =>
               ENABLED (LoopIterate \/ LoopExit \/ Sleep))
        /\ (pc \in {"done", "raised"} =>
               /\ calls = max_retries
               /\ Len(history) = max_retries)
        /\ (max_retries >= 1 => pc # "raised" /\ exc = "none")
        /\ (pc = "done" =>
               returned = [success |-> FALSE, error |-> "Invalid URL format"])

C14_Witness ==
    /\ InRetry
    /\ url = <<"f","b",".","c","o","m","/","p">>
    /\ max_retries = 3
    /\ pc = "done"
    /\ calls = 3
    /\ sleeps = 2
    /\ returned.error = "Invalid URL format"

\* the strategy the table of extract (lines 47-57) holds for a platform tag
StrategyFor(tag) ==
    CASE tag = "instagram" -> "_extract_instagram"
      [] tag = "twitter" -> "_extract_twitter"
      [] tag = "facebook" -> "_extract_facebook"
      [] tag = "youtube" -> "_extract_youtube"
      [] tag = "tiktok" -> "_extract_tiktok"
      [] tag = "linkedin" -> "_extract_linkedin"
      [] tag = "reddit" -> "_extract_reddit"
      [] tag = "pinterest" -> "_extract_pinterest"
      [] tag = "blog" -> "_extract_generic"

\* C16: for a valid URL every invocation of extract invokes the strategy
\* registered for detect_platform(url) and no other strategy, one strategy
\* per invocation, and every successful result carries
\* platform = detect_platform(url).
C16_DispatchFollowsClassifier ==
    (entry \in {"extract", "extract_with_retry"} /\ is_valid_url(url)) =>
        /\ Len(invoked) = calls
        /\ \A i \in 1..Len(invoked) :
              invoked[i] = StrategyFor(detect_platform(url))
        /\ \A r \in Results : r.success => r.platform = detect_platform(url)
        /\ (calls > 0 => platform = detect_platform(url))

C16_Witness ==
    /\ entry = "extract"
    /\ url = <<"H","T","T","P","S",":","/","/","F","B",".","C","O","M","/","x",".","c","o","m">>
    /\ pc = "done"
    /\ invoked = <<"_extract_twitter">>
    /\ returned.success
    /\ returned.platform = "twitter"

\* a call of extract has run the Twitter strategy
TwitterRan == entry = "extract" /\ last.oembed.status # "none"

PageFetched == requests = <<"oembed", "page">>

\* the order of the sources of the Twitter strategy, where oembedFailed says
\* which oEmbed answers let the page be fetched
TwitterSourceOrder(oembedFailed) ==
    TwitterRan =>
        /\ requests \in {<<"oembed">>, <<"oembed", "page">>}
        /\ netCalls <= 2
        /\ (PageFetched => oembedFailed)
        /\ (last.via = "oembed" => requests = <<"oembed">>)
        /\ (last.via = "page" => PageFetched /\ last.fetch = "ok")
        /\ (last.via = "url" =>
               /\ PageFetched
               /\ last.fetch \in FailedFetches \cup {"no_caption"})

FirstPathSegment(u) ==
    LET host == Find(u, <<":","/","/">>) + 3
        hostEnd == SkipNotClass(u, host, {"/", "?", "#"})
        segEnd == SkipNotClass(u, hostEnd + 1, {"/", "?", "#"})
    IN  IF Find(u, <<":","/","/">>) = 0 \/ hostEnd > Len(u) \/ u[hostEnd] # "/"
        THEN <<>>
        ELSE SubSeq(u, hostEnd + 1, segEnd - 1)

TwitterHosts == {<<"t","w","i","t","t","e","r",".","c","o","m">>, <<"x",".","c","o","m">>}

\* C19: when the oEmbed request and the page fetch both fail for a URL of
\* twitter.com or x.com, the Twitter strategy still returns success, with
\* author equal to the handle in the first path segment of the URL, and
\* with the title and the caption that are placeholders made of the handle.
C19_FallbackAuthorFromUrl ==
    (/\ TwitterRan
     /\ pc = "done"
     /\ Lower(urlparse(url).netloc) \in TwitterHosts
     /\ last.oembed.status \in {"raise", "non200"}
     /\ last.fetch \in FailedFetches) =>
        LET handle == FirstPathSegment(url)
        IN  /\ returned.success
            /\ returned.platform = "twitter"
            /\ returned.author = handle
            /\ handle # <<>> =>
                  /\ returned.title = <<"T","w","e","e","t"," ","b","y"," ">> \o handle
                  /\ returned.caption =
                         <<"T","w","e","e","t"," ","b","y"," ">> \o handle \o <<" ","U+2014"," ","c","l","i","c","k"," ","t","o"," ","v","i","e","w">>

\* the value of the query parameter v of a URL, <<>> when it has none
QueryParameterV(u) ==
    LET query == Find(u, <<"?">>)
        at == {i \in (query + 1)..Len(u) :
                  /\ u[i - 1] \in {"?", "&"}
                  /\ OccursAt(u, <<"v","=">>, i)}
        from == Min(at) + 2
    IN  IF query = 0 \/ at = {} THEN <<>>
        ELSE SubSeq(u, from, SkipNotClass(u, from, {"&", "#"}) - 1)

\* the video id a YouTube URL carries: its v= parameter, or the path
\* segment of a youtu.be short link
CarriedVideoId(u) ==
    IF QueryParameterV(u) # <<>> THEN QueryParameterV(u)
    ELSE IF Lower(urlparse(u).netloc) = <<"y","o","u","t","u",".","b","e">> THEN FirstPathSegment(u)
    ELSE <<>>

\* C20: for a URL classified as youtube that carries a video id, a
\* successful result has video_id equal to that id and image_url equal to
\* the thumbnail URL made of it, not the page's og:image.
C20_ThumbnailFromVideoId ==
    \A r \in Results :
        (r.success /\ r.platform = "youtube" /\ CarriedVideoId(url) # <<>>) =>
            /\ r.video_id = CarriedVideoId(url)
            /\ r.image_url = <<"h","t","t","p","s",":","/","/","i","m","g",".","y","o","u","t","u","b","e",".","c","o","m","/","v","i","/">>
                                 \o CarriedVideoId(url)
                                 \o <<"/","m","a","x","r","e","s","d","e","f","a","u","l","t",".","j","p","g">>

\* C11: _clean_instagram_title never returns a text longer than
\* TitleMaxLen + 1 = 61 characters and never the empty text, whatever the
\* caption; None, the empty caption and a caption that cleaning empties
\* yield "Instagram Post".
C11_TitleBounded ==
    norm.op = "_clean_instagram_title" =>
        /\ Len(norm.output) <= TitleMaxLen + 1
        /\ norm.output # <<>>
        /\ (norm.input \in {None, <<>>} => norm.output = <<"I","n","s","t","a","g","r","a","m"," ","P","o","s","t">>)
        /\ (norm.input # None /\ strip_social_noise(norm.input) = <<>> =>
               norm.output = <<"I","n","s","t","a","g","r","a","m"," ","P","o","s","t">>)

C11_Witness ==
    /\ norm.op = "_clean_instagram_title"
    /\ norm.input # None
    /\ Len(norm.input) > TitleMaxLen + 1
    /\ Find(norm.input, <<".">>) > TitleMaxLen + 1
    /\ Len(norm.output) = TitleMaxLen
    /\ norm.output = Paragraph(TitleMaxLen, "a")

\* C12: the noise stripping of lines 78-97 (hashtags, then mentions, then
\* emoji, then runs of periods, then whitespace) is idempotent: applied to
\* its own output it returns that output unchanged.
C12_StripNoiseIdempotent ==
    (norm.op = "strip_social_noise" /\ norm.passes = 2) =>
        norm.output = norm.input

\* the order of the table of platforms
TableOrder ==
    <<"instagram", "twitter", "facebook", "youtube", "tiktok", "linkedin",
      "reddit", "pinterest">>

Rank(tag) == CHOOSE i \in 1..Len(TableOrder) : TableOrder[i] = tag

\* C15: detect_platform matches in any letter case and anywhere in the URL,
\* and the first platform of the table whose pattern occurs wins: no
\* platform whose pattern occurs in the URL comes before the returned one
\* in the table; and a URL that was classified in the previous call is
\* given the same tag again.
C15_FirstTableEntryWins ==
    platform # "none" =>
        /\ \A tag \in SeqRange(TableOrder) :
              PatternOccurs(tag, url) =>
                  /\ platform \in SeqRange(TableOrder)
                  /\ Rank(platform) <= Rank(tag)
        /\ (log.platform # "none" /\ log.url = url =>
               platform = log.platform)

C15_Witness ==
    /\ entry = "detect_platform"
    /\ pc = "done"
    /\ url = <<"H","T","T","P","S",":","/","/","F","B",".","C","O","M","/","x",".","c","o","m">>
    /\ platform = "twitter"
    /\ log.url = url
    /\ log.platform = "twitter"

\* C17: extract neither retries nor caches: a call with a valid URL runs
\* one strategy once and does not sleep; it issues requests of its own,
\* also when the previous call had the same URL; and whether it succeeds
\* is decided by what the remote side answered in this call.
C17_NoRetryNoCache ==
    (entry = "extract" /\ is_valid_url(url)) =>
        /\ sleeps = 0
        /\ (pc = "dispatch" =>
               calls = 0 /\ invoked = <<>> /\ requests = <<>>)
        /\ (pc \in {"done", "raised"} =>
               /\ calls = 1
               /\ Len(invoked) = 1
               /\ events = <<"call">>
               /\ Len(requests) >= 1
               /\ netCalls = Len(requests))
        /\ (pc = "raised" => last.fetch = "ok")
        /\ (pc = "done" /\ platform # "twitter" =>
               (returned.success <=> last.fetch = "ok"))
        /\ (pc = "done" /\ platform = "twitter" =>
               /\ returned.success
               /\ (last.fetch = "ok" => last.via = "page")
               /\ (last.fetch = "unused" <=> last.via = "oembed"))

C17_Witness ==
    /\ entry = "extract"
    /\ pc = "done"
    /\ is_valid_url(url)
    /\ log.entry = "extract"
    /\ log.url = url
    /\ log.outcome = "failure"
    /\ returned.success
    /\ requests = <<"page">>

\* the platforms whose strategy has the fetched page as its only source
PageOnlyPlatforms == ALLOWED_PLATFORMS \ {"twitter"}

\* C21: for the strategies whose only source is the fetched page, an
\* invocation whose page request failed (transport error or non-2xx status)
\* returns success = false, and the dict holds success and error only: no
\* content is made of the URL.
C21_FailedFetchIsFailure ==
    platform \in PageOnlyPlatforms =>
        \A i \in 1..Len(fetches) :
            fetches[i] \in FailedFetches =>
                /\ i <= Len(history)
                /\ ~history[i].success
                /\ DOMAIN history[i] = {"success", "error"}
                /\ (i = Len(fetches) /\ pc = "done" /\ entry = "extract" =>
                       returned = history[i])

C21_Witness ==
    /\ entry = "extract"
    /\ pc = "done"
    /\ url = <<"h","t","t","p","s",":","/","/","w","w","w",".","y","o","u","t","u","b","e",".","c","o","m","/","w","a","t","c","h","?","v","=","a","b","c","1","2","3">>
    /\ fetches = <<"status">>
    /\ ~returned.success
    /\ returned.error = "Failed to fetch YouTube video"

\* C22: the error of a failure that a failed fetch caused carries the
\* cause of that failure: two invocations whose page requests failed for
\* different causes return different errors.
C22_ErrorCarriesCause ==
    \A i, j \in 1..Len(history) :
        (/\ fetches[i] \in FailedFetches
         /\ fetches[j] \in FailedFetches
         /\ fetches[i] # fetches[j]
         /\ ~history[i].success
         /\ ~history[j].success) =>
            history[i].error # history[j].error

\* C25: for a valid URL classified as twitter every invocation of extract
\* returns success = true, whatever the oEmbed endpoint and the page
\* answer; hence extract_with_retry (max_retries >= 1) invokes extract
\* once and does not sleep.
C25_TwitterAlwaysSucceeds ==
    (/\ entry \in {"extract", "extract_with_retry"}
     /\ is_valid_url(url)
     /\ detect_platform(url) = "twitter"
     /\ (InRetry => max_retries >= 1)) =>
        /\ exc = "none"
        /\ pc # "raised"
        /\ \A i \in 1..Len(history) : history[i].success
        /\ sleeps = 0
        /\ calls <= 1
        /\ (pc = "done" => calls = 1 /\ returned.success)

\* a call of extract fetched the page of a valid URL
PageFetchedOk ==
    /\ page.called
    /\ is_valid_url(page.url)
    /\ page.response.fetch = "ok"

PageDoc == page.response.doc

PageTag == detect_platform(page.url)

\* C24: for Instagram the caption of the result is the source caption
\* unchanged (the caption of the embedded JSON when the page holds that
\* blob with a caption, og:description otherwise), the title is
\* _clean_instagram_title of that caption, and og:title has no part in the
\* result: with any other og:title the call comes to the same outcome.
C24_InstagramTitleFromCaption ==
    (PageFetchedOk /\ PageTag = "instagram") =>
        LET json == PageDoc.shared_data
            source == IF json.kind = "post" /\ json.text \notin {Missing, BadShape}
                      THEN json.text
                      ELSE IF PageDoc.og_description = NoTag THEN <<>>
                      ELSE PageDoc.og_description
            r == page.outcome.value
        IN  /\ page.outcome.kind = "return" =>
                  /\ r.success
                  /\ r.caption = source
                  /\ r.title = _clean_instagram_title(source)
                  /\ r.title = _clean_instagram_title(r.caption)
                  /\ (PageDoc.og_title \notin {NoTag, NoContent} =>
                         r.title # PageDoc.og_title)
            /\ \A t \in OgTitles :
                  page.outcome =
                      extract(page.url, page.oembed,
                              [fetch |-> "ok",
                               doc |-> [PageDoc EXCEPT !.og_title = t]])

C24_Witness ==
    /\ PageFetchedOk
    /\ PageTag = "instagram"
    /\ PageDoc.og_title = <<"D","e","m","o"," ","V","i","d","e","o">>
    /\ PageDoc.og_description = <<"G","r","e","a","t"," ","d","a","y","!"," ","#","f","u","n"," ","@","f","r","i","e","n","d"," ","U+1F60A"," ","M","o","r","e"," ","t","e","x","t"," ","h","e","r","e",".">>
    /\ PageDoc.shared_data.kind = "post"
    /\ PageDoc.shared_data.text = <<"S","u","n","."," ","#","x">>
    /\ page.outcome.kind = "return"
    /\ page.outcome.value.caption = <<"S","u","n","."," ","#","x">>
    /\ page.outcome.value.title = <<"S","u","n",".">>

\* the page has no tag k
Absent(k) == k \notin DOMAIN PageDoc \/ PageDoc[k] = NoTag

\* every meta tag the page has carries a content attribute, and the
\* caption of the embedded JSON of an Instagram page, if any, is a string
WellFormedPage ==
    /\ \A k \in DOMAIN PageDoc \cap {"og_title", "og_description", "og_image",
                                     "meta_description", "meta_author"} :
          PageDoc[k] # NoContent
    /\ "shared_data" \in DOMAIN PageDoc =>
          PageDoc.shared_data.text \notin {None, JNumber}

\* the fixed label of each platform
DefaultLabel(tag) ==
    CASE tag = "instagram" -> <<"I","n","s","t","a","g","r","a","m"," ","P","o","s","t">>
      [] tag = "twitter" -> <<"T","w","i","t","t","e","r"," ","P","o","s","t">>
      [] tag = "facebook" -> <<"F","a","c","e","b","o","o","k"," ","P","o","s","t">>
      [] tag = "youtube" -> <<"Y","o","u","T","u","b","e"," ","V","i","d","e","o">>
      [] tag = "tiktok" -> <<"T","i","k","T","o","k"," ","V","i","d","e","o">>
      [] tag = "linkedin" -> <<"L","i","n","k","e","d","I","n"," ","P","o","s","t">>
      [] tag = "reddit" -> <<"R","e","d","d","i","t"," ","P","o","s","t">>
      [] tag = "pinterest" -> <<"P","i","n","t","e","r","e","s","t"," ","P","i","n">>
      [] tag = "blog" -> <<"U","n","t","i","t","l","e","d">>

StateText ==
    IF Absent("state_script") THEN <<>>
    ELSE SearchQuoted(PageDoc.state_script, <<"\"","t","e","x","t","\"",":","\"">>)

StateScreenName ==
    IF Absent("state_script") THEN <<>>
    ELSE SearchQuoted(PageDoc.state_script, <<"\"","s","c","r","e","e","n","_","n","a","m","e","\"",":","\"">>)

\* the Twitter page yields no caption, so the result is made of the URL
TwitterFromUrl ==
    /\ PageTag = "twitter"
    /\ Absent("og_description")
    /\ Absent("meta_description")
    /\ StateText = <<>>

\* the embedded JSON of the Instagram page gives a caption, a username
JsonCaption ==
    /\ "shared_data" \in DOMAIN PageDoc
    /\ PageDoc.shared_data.kind = "post"
    /\ PageDoc.shared_data.text \notin {Missing, BadShape}

JsonUsername ==
    /\ "shared_data" \in DOMAIN PageDoc
    /\ PageDoc.shared_data.kind = "post"
    /\ PageDoc.shared_data.text # BadShape
    /\ PageDoc.shared_data.username \notin {Missing, BadShape}

\* the page and the URL hold nothing the strategy makes the field of
NoTitleSource ==
    CASE PageTag = "instagram" -> Absent("og_description") /\ ~JsonCaption
      [] PageTag = "twitter" ->
             IF TwitterFromUrl THEN url_author(page.url) = <<>>
             ELSE Absent("og_title") /\ StateScreenName = <<>>
      [] OTHER -> Absent("og_title") /\ Absent("title_tag")

NoCaptionSource ==
    CASE PageTag = "instagram" -> Absent("og_description") /\ ~JsonCaption
      [] PageTag = "twitter" -> FALSE
      [] OTHER -> /\ Absent("og_description")
                  /\ Absent("meta_description")
                  /\ Absent("article")

NoImageSource ==
    /\ Absent("og_image")
    /\ PageTag = "youtube" => video_id_of(page.url) = <<>>

NoAuthorSource ==
    CASE PageTag = "instagram" -> ~JsonUsername
      [] PageTag = "twitter" ->
             IF TwitterFromUrl THEN url_author(page.url) = <<>>
             ELSE StateScreenName = <<>>
      [] OTHER -> Absent("meta_author")

InsertedBy(k) == {i \in 1..Len(web) : web[i].row = saved_content[k].id}

\* C26: a row is in saved_content only after extraction of its URL returned
\* success=true: every row was inserted by one request, api_save_content or
\* whatsapp_webhook, whose URL is valid and whose extraction returned
\* success=true, and a request that ended on a missing or invalid URL, a
\* failed extraction or an exception inserted nothing.
C26_RowOnlyAfterSuccess ==
    /\ \A k \in 1..Len(saved_content) :
          /\ saved_content[k].id = k
          /\ Cardinality(InsertedBy(k)) = 1
          /\ \A i \in InsertedBy(k) :
                /\ web[i].url = saved_content[k].url
                /\ web[i].pc = "saved"
                /\ web[i].extracted = "success"
                /\ is_valid_url(web[i].url)
    /\ \A i \in 1..Len(web) :
          /\ web[i].pc # "saved" => web[i].row = 0
          /\ web[i].extracted # "success" => web[i].row = 0
    /\ Len(saved_content) = Cardinality({i \in 1..Len(web) : web[i].pc = "saved"})

\* one request failed to extract, another saved the same URL
C26_Witness ==
    /\ Len(web) = 2
    /\ web[1].handler = "api_save_content"
    /\ web[1].pc = "failed"
    /\ web[2].handler = "whatsapp_webhook"
    /\ web[2].pc = "saved"
    /\ web[1].url = web[2].url
    /\ Len(saved_content) = 1

\* C27: under any interleaving of webhook requests, the webhook never
\* inserts a second row for a URL that already has a row.
C27_WebhookNeverDuplicates ==
    \A i \in 1..Len(web) :
        (web[i].handler = "whatsapp_webhook" /\ web[i].row # 0) =>
            \A k \in 1..(web[i].row - 1) :
                saved_content[k].url # web[i].url

\* C28: delete_collection(name) removes name from the table collections
\* and sets collection to NULL on exactly the rows of saved_content whose
\* collection was name; every other collection and every other row's
\* collection is unchanged, and no row of saved_content is deleted.
C28_DeleteCollectionFrame ==
    [][(op'.fn = "delete_collection" /\ op'.called) =>
          /\ \A k \in 1..Len(collections') : collections'[k] # op'.name
          /\ collections' = SelectSeq(collections, LAMBDA n : n # op'.name)
          /\ Len(saved_content') = Len(saved_content)
          /\ \A k \in 1..Len(saved_content) :
                /\ saved_content'[k].id = saved_content[k].id
                /\ saved_content'[k].url = saved_content[k].url
                /\ saved_content'[k].collection =
                       IF saved_content[k].collection = op'.name THEN None
                       ELSE saved_content[k].collection]_vars

\* collection a was deleted: the one row that was in it has NULL, the row
\* in b and the collection b are as they were
C28_Witness ==
    /\ op.fn = "delete_collection"
    /\ op.called
    /\ op.name = <<"a">>
    /\ op.rows = 1
    /\ collections = << <<"b">> >>
    /\ Len(saved_content) = 2
    /\ saved_content[1].collection = None
    /\ saved_content[2].collection = <<"b">>

\* C29: every row's collection is NULL, empty, or the name of a collection
\* in the table collections, and the names of the table are distinct.
C29_CollectionsExist ==
    /\ \A k \in 1..Len(saved_content) :
          \/ saved_content[k].collection \in {None, <<>>}
          \/ \E j \in 1..Len(collections) :
                collections[j] = saved_content[k].collection
    /\ \A i, j \in 1..Len(collections) :
          i # j => collections[i] # collections[j]

\* the length of the run of consecutive days of S that ends on day e
RunEnding(S, e) ==
    CHOOSE n \in 0..Cardinality(S) :
        /\ \A k \in 0..(n - 1) : e - k \in S
        /\ e - n \notin S

\* the length of the longest run of consecutive days of S
LongestRun(S) ==
    IF S = {} THEN 0
    ELSE CHOOSE n \in {RunEnding(S, e) : e \in S} :
             \A e \in S : RunEnding(S, e) <= n

\* C30: for any set of save dates get_streak_stats returns
\* 0 <= current_streak <= best_streak; current_streak is the length of the
\* run of consecutive days ending today, or yesterday when today has no
\* save (0 if neither day has one); best_streak is the length of the
\* longest run of consecutive days; all three values are 0 without rows.
C30_StreaksAreRuns ==
    stats.called =>
        /\ 0 <= stats.out.current_streak
        /\ stats.out.current_streak <= stats.out.best_streak
        /\ stats.out.current_streak =
               IF 0 \in stats.dates THEN RunEnding(stats.dates, 0)
               ELSE IF -1 \in stats.dates THEN RunEnding(stats.dates, -1)
               ELSE 0
        /\ stats.out.best_streak = LongestRun(stats.dates)
        /\ stats.dates = {} =>
               /\ stats.out.current_streak = 0
               /\ stats.out.best_streak = 0
               /\ stats.out.total_this_week = 0

\* saves yesterday and the day before, none today, and an older run of
\* three days
C30_Witness ==
    /\ stats.called
    /\ stats.dates = {-1, -2, -4, -5, -6}
    /\ stats.out.current_streak = 2
    /\ stats.out.best_streak = 3

====
